---- MODULE Spec2Model ----
(***************************************************************************)
(* Analysis pipeline engine of the repository audit backend.               *)
(*                                                                         *)
(*   Spec       one engine run (run_pipeline or OrchestratorAgent.run) on  *)
(*              one Analysis record, with its capability calls, the        *)
(*              Analysis-record store and the event broadcaster            *)
(*   FairSpec   Spec with weak fairness on the engine's own steps          *)
(*   SubmitSpec start_analysis requests creating Analysis rows and tasks   *)
(***************************************************************************)
EXTENDS Integers, Sequences, FiniteSets, TLC

\* ------------------------------------------------------------------ bounds
MaxSubs == 1          \* subscribers connected to the analysis id
MaxFiles == 1         \* files handed to classification / quality analysis
MaxFindings == 1      \* findings a single stage returns
MaxExcLen == 2500     \* longest exception text considered
MaxRequests == 3      \* start_analysis requests in SubmitSpec
MaxIds == 2
MaxAuditCalls == 2
MaxMergeItems == 2
MaxMergeSources == 2
MaxRawItems == 1
MaxScoreLen == 4
MaxCritical == 17
MaxWarnings == 4
MaxInfo == 5
MaxGraphFiles == 2
MaxGraphDeps == 2
MaxGraphFindings == 1
MaxBuilds == 2
MaxSockets == 2
MaxEvents == 2
MaxPayloadWidth == 1           \* distinct values generate_analysis_id can return

\* ------------------------------------------------------- program constants
ErrMsgMax == 2000     \* str(exc)[:2000] in run_pipeline's handler
CloneErrMax == 500    \* stderr.decode()[:500] in _clone_repo
CloneErrPrefix == 18  \* len("git clone failed: ")
FallbackFixMax == 10  \* findings[:10] in _fallback_fixes
MinUrlParts == 2
StrLimit == 4000
ListLimit == 200      \* len(parts) < 2 in start_analysis

VARIABLES
    kind,        \* which engine runs: "pipeline", "orchestrator", "none"
    pc,          \* position of the engine coroutine
    status,      \* persisted Analysis.status
    objStatus,   \* OrchestratorAgent: self.analysis.status before commit
    hist,        \* sequence of the values status has taken
    errLen,      \* length of the persisted error_message, -1 if NULL
    excLen,      \* length of str(exc) of the exception being handled
    published,   \* events handed to ConnectionManager.broadcast, in order
    pending,     \* events the current step still has to broadcast
    subs,        \* ConnectionManager.active[analysis_id]
    bidx,        \* broadcast: index of the subscriber being sent to (0 idle)
    dead,        \* broadcast: subscribers whose send raised
    avail,       \* provider -> has credentials (client.available)
    meta,        \* ingested metadata summary
    res,         \* per-stage results of the run
    call,        \* the latest capability call (attempts, audit records)
    caps,        \* capabilities invoked so far in the run
    env,         \* what the environment did so far (ghost)
    rows,        \* SubmitSpec: analysis ids present in the analyses table
    tasks,       \* SubmitSpec: engine tasks created by start_analysis
    replies,     \* SubmitSpec: HTTP status codes returned so far
    auditRows,   \* AuditSpec: rows persisted in the tool_calls table
    args,        \* function specifications: the arguments of the call
    ret,         \* function specifications: its return value, NoRet before
    active,      \* WsSpec: ConnectionManager.active, analysis id -> list
    socks,       \* WsSpec: per WebSocket, its state and the events received
    bc,          \* WsSpec: the broadcast calls in progress
    neo          \* PersistSpec: nodes and edges stored in Neo4j

\* variables of the specifications of single functions
wsVars == <<active, socks, bc>>

libVars == <<auditRows, args, ret, wsVars, neo>>

vars == <<kind, pc, status, objStatus, hist, errLen, excLen, published,
          pending, subs, bidx, dead, avail, meta, res, call, caps, env,
          rows, tasks, replies, libVars>>

engineVars == <<kind, pc, status, objStatus, hist, errLen, excLen, published,
                pending, subs, bidx, dead, avail, meta, res, call, caps, env>>

\* the function has not returned yet
NoRet == [called |-> FALSE]

\* an empty Neo4j database
EmptyNeo == [nodes |-> {}, edges |-> <<>>]

\* no WebSocket is connected and no broadcast is running
WsIdle == active = <<>> /\ socks = <<>> /\ bc = <<>>

\* no function specification is running
LibIdle ==
    /\ auditRows = <<>> /\ args = NoRet /\ ret = NoRet
    /\ WsIdle /\ neo = EmptyNeo

\* ----------------------------------------------------------------- helpers
Min(a, b) == IF a < b THEN a ELSE b

\* the sizes tried for a collection of at most n items: empty or full
Counts(n) == {0, n}

Range(s) == {s[i] : i \in 1..Len(s)}

RECURSIVE Repeat(_, _)
Repeat(x, n) == IF n <= 0 THEN <<>> ELSE <<x>> \o Repeat(x, n - 1)

SeqFilter(s, S) == SelectSeq(s, LAMBDA x : x \notin S)

CountIn(s, P(_)) == Len(SelectSeq(s, P))

\* AnalysisStatus enum
AnalysisStatus ==
    {"queued", "cloning", "mapping", "analyzing", "completing", "completed", "failed"}

Terminal == {"completed", "failed"}

Providers == {"fastino", "tavily", "yutori", "openai"}

\* an event handed to the broadcaster: type, agent, status/provider
Ev(t, a, s) == <<t, a, s>>

EvStatus(a, s) == Ev("status", a, s)

EvActivity(a, p) == Ev("tool_activity", a, p)

EvFinding(src) == Ev("finding", src, "")

\* an audit record handed to log_tool_call: tool name, status
Rec(tool, st) == <<tool, st>>

NoCall ==
    [cap |-> "none", primary |-> "none", fallback |-> "none",
     result |-> "none", raised |-> FALSE, records |-> <<>>]

EmptyMeta == [files |-> 0, src |-> 0, deps |-> FALSE]

EmptyRes ==
    [cve |-> 0, ansNull |-> FALSE, bp |-> 0, cveF |-> 0, quality |-> 0,
     yutori |-> "none", yutoriN |-> 0, vulns |-> 0, deep |-> 0, fixes |-> 0,
     neo4j |-> "none", nodes |-> 0, record |-> "none"]

EmptyEnv ==
    [clone |-> "none", ingestFailed |-> FALSE, storeFault |-> FALSE,
     excSeen |-> FALSE]


\* ------------------------------------------------- capability client calls
\* outcome of one HTTP request of a client with a timeout
HttpOutcomes == {"ok", "error", "timeout"}

\* "malformed": the request succeeds but the body is not what the client
\* indexes into after it has logged the call
ClientOutcomes == {"ok", "error", "timeout", "malformed"}

BadOutcomes == ClientOutcomes \ {"ok"}

\* audit records written by one client call with the given outcome
ClientRecords(tool, o) ==
    CASE o = "ok" -> <<Rec(tool, "success")>>
      [] o = "malformed" -> <<Rec(tool, "success"), Rec(tool, "error")>>
      [] OTHER -> <<Rec(tool, "error")>>

\* OpenAIClient.chat
ChatRecords(o) == ClientRecords("openai", o)

ChatRaises(o) == o # "ok"

\* FastinoClient._call_api
FastinoRecords(o) == ClientRecords("fastino", o)

FastinoRaises(o) == o # "ok"

\* TavilyClient.search / extract
TavilyRecords(o) == ClientRecords("tavily", o)

TavilyRaises(o) == o # "ok"

\* YutoriClient.research with poll=True
YutoriOutcomes ==
    {"create_error", "no_task", "succeeded", "failed", "poll_timeout", "poll_error"}

YutoriRecords(o) ==
    CASE o = "create_error" -> <<Rec("yutori", "error")>>
      [] o = "no_task" -> <<Rec("yutori", "success")>>
      [] o = "succeeded" -> <<Rec("yutori", "success"), Rec("yutori", "success")>>
      [] OTHER -> <<Rec("yutori", "success"), Rec("yutori", "error")>>

YutoriRaises(o) == o \in {"create_error", "poll_error"}

\* ------------------------------------------------------- capability calls
\* _classify_files: Fastino per file, OpenAI batch, heuristic.
\* n files; the Fastino loop fails at file k with outcome fbad (k = n+1: no
\* failure); oo is the outcome of the OpenAI batch call.
ClassifyFiles(fAvail, oAvail, n, k, fbad, oo) ==
    IF n = 0 THEN NoCall
    ELSE
    LET fRecs == IF fAvail
                 THEN Repeat(Rec("fastino", "success"), Min(k - 1, n))
                      \o (IF k <= n THEN FastinoRecords(fbad) ELSE <<>>)
                 ELSE <<>>
        fDone == fAvail /\ k > n
        oTried == ~fDone /\ oAvail
        oDone == oTried /\ ~ChatRaises(oo)
    IN [cap |-> "classification",
        primary |-> IF ~fAvail THEN "unavailable"
                    ELSE IF fDone THEN "ok" ELSE "failed",
        fallback |-> IF fDone THEN "none"
                     ELSE IF ~oAvail THEN "unavailable"
                     ELSE IF oDone THEN "ok" ELSE "failed",
        result |-> IF fDone THEN "A" ELSE IF oDone THEN "B" ELSE "local",
        raised |-> FALSE,
        records |-> fRecs \o (IF oTried THEN ChatRecords(oo) ELSE <<>>)]

\* _code_quality_analysis: _fastino_code_quality, then _openai_code_quality
CodeQualityAnalysis(fAvail, oAvail, n, k, fbad, oo) ==
    IF n = 0 THEN NoCall
    ELSE
    LET fRecs == IF fAvail
                 THEN Repeat(Rec("fastino", "success"), Min(k - 1, n))
                      \o (IF k <= n THEN FastinoRecords(fbad) ELSE <<>>)
                 ELSE <<>>
        fDone == fAvail /\ k > n
        oTried == ~fDone /\ oAvail
        oDone == oTried /\ ~ChatRaises(oo)
    IN [cap |-> "code_quality",
        primary |-> IF ~fAvail THEN "unavailable"
                    ELSE IF fDone THEN "ok" ELSE "failed",
        fallback |-> IF fDone THEN "none"
                     ELSE IF ~oAvail THEN "unavailable"
                     ELSE IF oDone THEN "ok" ELSE "failed",
        result |-> IF fDone THEN "A" ELSE IF oDone THEN "B" ELSE "none",
        raised |-> FALSE,
        records |-> fRecs \o (IF oTried THEN ChatRecords(oo) ELSE <<>>)]

\* _deep_research: _yutori_research (yo, yn findings), then OpenAI chat (oo)
DeepResearch(yAvail, oAvail, yo, yn, oo) ==
    LET yGot == yAvail /\ yo = "succeeded" /\ yn > 0
        yState == IF ~yAvail THEN "unavailable"
                  ELSE IF yGot THEN "ok"
                  ELSE IF yo \in {"succeeded", "no_task"} THEN "empty"
                  ELSE "failed"
        oTried == ~yGot /\ oAvail
        oDone == oTried /\ ~ChatRaises(oo)
    IN [cap |-> "deep_research",
        primary |-> yState,
        fallback |-> IF yGot THEN "none"
                     ELSE IF ~oAvail THEN "unavailable"
                     ELSE IF oDone THEN "ok" ELSE "failed",
        result |-> IF yGot THEN "A" ELSE IF oDone THEN "B" ELSE "none",
        raised |-> FALSE,
        records |-> (IF yAvail THEN YutoriRecords(yo) ELSE <<>>)
                    \o (IF oTried THEN ChatRecords(oo) ELSE <<>>)]

\* get_reasoning_provider().reason(...): HybridProvider.__init__ and reason
HybridReason(yAvail, oAvail, yo, oo) ==
    LET yDone == yAvail /\ yo = "ok"
        oTried == ~yDone /\ oAvail
        oDone == oTried /\ oo = "ok"
    IN [cap |-> "reasoning",
        primary |-> IF ~yAvail THEN "unavailable"
                    ELSE IF yDone THEN "ok" ELSE "failed",
        fallback |-> IF yDone THEN "none"
                     ELSE IF ~oAvail THEN "unavailable"
                     ELSE IF oDone THEN "ok" ELSE "failed",
        result |-> IF yDone THEN "A" ELSE IF oDone THEN "B" ELSE "none",
        raised |-> ~yDone /\ ~oDone,
        records |-> <<>>]

\* a call served by one provider only (Tavily search, OpenAI analysis)
SingleCall(capName, isAvail, raises, recs) ==
    [cap |-> capName,
     primary |-> IF ~isAvail THEN "unavailable"
                 ELSE IF raises THEN "failed" ELSE "ok",
     fallback |-> "none",
     result |-> IF isAvail /\ ~raises THEN "A" ELSE "none",
     raised |-> FALSE,
     records |-> recs]

\* ------------------------------------------------------- event broadcaster
BroadcastOnSendError_Propagate == "propagate"

\* ConnectionManager.broadcast: what the loop does when send_json raises
BroadcastOnSendError == "mark_dead"

\* where an exception raised inside OrchestratorAgent's hooks lands:
\* on_start and on_error are outside the try of BaseAgent.run
\* (p is the position the coroutine resumes at after the broadcast)
OrchRaiseTarget(p) == IF p \in {"o_exec", "o_raised"} THEN "o_raised" ELSE "o_error"

\* the engine coroutine is not awaiting a broadcast
Idle == pending = <<>> /\ bidx = 0

\* the coroutine goes on to broadcast the events evs to the subscribers
\* to: with no subscriber broadcast returns without suspending, otherwise it
\* runs up to the first awaited send_json of the first event
StartSends(evs, to) ==
    IF evs = <<>> \/ to = <<>>
    THEN /\ published' = published \o evs
         /\ pending' = <<>>
         /\ bidx' = 0
    ELSE /\ published' = Append(published, Head(evs))
         /\ pending' = evs
         /\ bidx' = 1

\* await _ws...(...) for each event of evs, in order
Emit(evs) == StartSends(evs, subs) /\ dead' = {}

\* the awaited send_json returns (ok) or raises
SendReturns(ok) ==
    /\ bidx > 0
    /\ LET d == IF ok THEN dead ELSE dead \cup {subs[bidx]}
           alive == SeqFilter(subs, d)
           \* a connection is identified by its position in the list
           left == [i \in 1..Len(alive) |-> i]
           rest == Tail(pending)
       IN IF ~ok /\ BroadcastOnSendError = "propagate"
          THEN \* the exception leaves broadcast: _ws* swallow it,
               \* OrchestratorAgent._broadcast_status does not
               /\ dead' = {}
               /\ UNCHANGED subs
               /\ IF kind = "pipeline"
                  THEN StartSends(rest, subs) /\ pc' = pc
                  ELSE /\ pending' = <<>> /\ bidx' = 0
                       /\ pc' = OrchRaiseTarget(pc)
                       /\ UNCHANGED published
          ELSE IF bidx < Len(subs)
          THEN /\ bidx' = bidx + 1 /\ dead' = d
               /\ UNCHANGED <<subs, published, pending, pc>>
          ELSE /\ dead' = {}
               /\ subs' = left
               /\ pc' = pc
               /\ StartSends(rest, left)
    /\ UNCHANGED <<kind, status, objStatus, hist, errLen, excLen,
                   avail, meta, res, call, caps, env, rows, tasks, replies, libVars>>

\* ------------------------------------------------- Analysis-record store
ExcLens == {1, ErrMsgMax, MaxExcLen}

\* persisted status write
SetStatus(s) == status' = s /\ hist' = Append(hist, s)

\* an exception of text length n reaches run_pipeline's except clause
Raise(n, e) ==
    /\ pc' = "except"
    /\ excLen' = n
    /\ env' = [e EXCEPT !.excSeen = TRUE]

\* a write to the analyses table raises
StoreRaise ==
    \E n \in ExcLens : Raise(n, [env EXCEPT !.storeFault = TRUE])

\* ------------------------------------------------------------ run_pipeline
\* 1. CLONE: _update_status(CLONING), status event
P_Start ==
    /\ kind = "pipeline" /\ pc = "start" /\ Idle
    /\ \E ok \in BOOLEAN :
         IF ok
         THEN /\ SetStatus("cloning")
              /\ Emit(<<EvStatus("orchestrator", "running")>>)
              /\ pc' = "clone"
              /\ UNCHANGED <<excLen, env>>
         ELSE /\ StoreRaise
              /\ UNCHANGED <<status, hist, published, pending, bidx, dead>>
    /\ UNCHANGED <<kind, objStatus, errLen, subs, avail, meta, res,
                   call, caps, rows, tasks, replies, libVars>>

\* _clone_repo up to the awaited proc.communicate(): the Analysis row is
\* read (the read can raise), then git is spawned
P_CloneSpawn ==
    /\ kind = "pipeline" /\ pc = "clone" /\ Idle
    /\ \E ok \in BOOLEAN :
         IF ok
         THEN /\ pc' = "clone_wait"
              /\ UNCHANGED <<excLen, env>>
         ELSE StoreRaise
    /\ UNCHANGED <<kind, status, objStatus, hist, errLen, published,
                   pending, subs, bidx, dead, avail, meta, res, call, caps,
                   rows, tasks, replies, libVars>>

\* length of "git clone failed: " + stderr[:500]
CloneErrLen(stderrLen) == CloneErrPrefix + Min(stderrLen, CloneErrMax)

\* git exits with return code rc: audit record, raise or record clone_dir
P_CloneReturns(rc) ==
    /\ kind = "pipeline" /\ pc = "clone_wait"
    /\ call' = [NoCall EXCEPT !.cap = "git",
                   !.records = <<Rec("git", IF rc = 0 THEN "success" ELSE "error")>>]
    /\ IF rc # 0
       THEN \E n \in {0, CloneErrMax + 1} :
                Raise(CloneErrLen(n), [env EXCEPT !.clone = "fail"])
       ELSE \E ok \in BOOLEAN :
                IF ok
                THEN /\ pc' = "mapping"
                     /\ env' = [env EXCEPT !.clone = "ok"]
                     /\ UNCHANGED excLen
                ELSE \E n \in ExcLens :
                       Raise(n, [env EXCEPT !.clone = "ok", !.storeFault = TRUE])
    /\ UNCHANGED <<kind, status, objStatus, hist, errLen, published, pending,
                   subs, bidx, dead, avail, meta, res, caps, rows, tasks, replies, libVars>>

\* except Exception: persist FAILED with str(exc)[:2000], then _ws_error
P_Except ==
    /\ kind = "pipeline" /\ pc = "except" /\ Idle
    /\ \E ok \in BOOLEAN :
         IF ok
         THEN /\ SetStatus("failed")
              /\ errLen' = Min(excLen, ErrMsgMax)
              /\ Emit(<<Ev("error", "orchestrator", "")>>)
              /\ pc' = "done"
              /\ UNCHANGED env
         ELSE /\ pc' = "crashed"
              /\ env' = [env EXCEPT !.storeFault = TRUE]
              /\ UNCHANGED <<status, hist, errLen, published, pending, bidx, dead>>
    /\ UNCHANGED <<kind, objStatus, excLen, subs, avail, meta, res,
                   call, caps, rows, tasks, replies, libVars>>


\* the capability was invoked if some client call was made for it
Invoked(c, r) == IF r.records # <<>> THEN c \cup {r.cap} ELSE c

\* 2. METADATA INGESTION: _update_status(MAPPING), _ingest_metadata
P_Mapping ==
    /\ kind = "pipeline" /\ pc = "mapping" /\ Idle
    /\ \E ok \in BOOLEAN :
         IF ~ok
         THEN /\ StoreRaise
              /\ UNCHANGED <<status, hist, published, pending, bidx, dead, meta>>
         ELSE /\ SetStatus("mapping")
              /\ \E ing \in BOOLEAN :
                   IF ing
                   THEN /\ \E n \in Counts(MaxFiles), d \in BOOLEAN :
                             meta' = [files |-> n, src |-> 0, deps |-> d]
                        /\ Emit(<<EvStatus("mapper", "running"),
                                  EvStatus("mapper", "running")>>)
                        /\ pc' = "classify"
                        /\ UNCHANGED <<excLen, env>>
                   ELSE /\ Emit(<<EvStatus("mapper", "running")>>)
                        /\ \E n \in ExcLens :
                             Raise(n, [env EXCEPT !.ingestFailed = TRUE])
                        /\ UNCHANGED meta
    /\ UNCHANGED <<kind, objStatus, errLen, subs, avail, res,
                   call, caps, rows, tasks, replies, libVars>>

\* _classify_files; s of the files end up in category "source"
P_Classify ==
    /\ kind = "pipeline" /\ pc = "classify" /\ Idle
    /\ \E k \in 1..(meta.files + 1), fbad \in BadOutcomes,
          oo \in ClientOutcomes, s \in Counts(meta.files) :
         LET r == ClassifyFiles(avail.fastino, avail.openai, meta.files, k, fbad, oo)
         IN /\ call' = r
            /\ caps' = Invoked(caps, r)
            /\ meta' = [meta EXCEPT !.src = s]
    /\ pc' = "save_meta"
    /\ UNCHANGED <<kind, status, objStatus, hist, errLen, excLen, env, published,
                   pending, subs, bidx, dead, avail, res, rows, tasks, replies, libVars>>

\* _save_metadata, then the "mapped" status and activity events
P_SaveMeta ==
    /\ kind = "pipeline" /\ pc = "save_meta" /\ Idle
    /\ \E ok \in BOOLEAN :
         IF ok
         THEN /\ Emit(<<EvStatus("mapper", "complete"), EvActivity("mapper", "openai")>>)
              /\ pc' = "analyzing"
              /\ UNCHANGED <<excLen, env>>
         ELSE /\ StoreRaise
              /\ UNCHANGED <<published, pending, bidx, dead>>
    /\ UNCHANGED <<kind, status, objStatus, hist, errLen, subs, avail,
                   meta, res, call, caps, rows, tasks, replies, libVars>>

\* 3. _update_status(ANALYZING)
P_SetAnalyzing ==
    /\ kind = "pipeline" /\ pc = "analyzing" /\ Idle
    /\ \E ok \in BOOLEAN :
         IF ok
         THEN /\ SetStatus("analyzing")
              /\ Emit(<<EvStatus("security", "running"), EvActivity("security", "tavily")>>)
              /\ pc' = "cve_search"
              /\ UNCHANGED <<excLen, env>>
         ELSE /\ StoreRaise
              /\ UNCHANGED <<status, hist, published, pending, bidx, dead>>
    /\ UNCHANGED <<kind, objStatus, errLen, subs, avail, meta, res,
                   call, caps, rows, tasks, replies, libVars>>

\* _tavily_cve_search: one batch of non-dev dependencies; a successful
\* response carries an answer that is a string or JSON null
P_CveSearch ==
    /\ kind = "pipeline" /\ pc = "cve_search" /\ Idle
    /\ \E o \in HttpOutcomes, null \in BOOLEAN :
         LET tried == avail.tavily /\ meta.deps
             r == IF tried
                  THEN SingleCall("cve_search", TRUE, TavilyRaises(o), TavilyRecords(o))
                  ELSE IF ~avail.tavily
                  THEN SingleCall("cve_search", FALSE, FALSE, <<>>)
                  ELSE NoCall
         IN /\ call' = r
            /\ caps' = Invoked(caps, r)
            /\ res' = [res EXCEPT !.cve = IF tried /\ o = "ok" THEN 1 ELSE 0,
                                  !.ansNull = tried /\ o = "ok" /\ null]
    /\ Emit(<<EvStatus("security", "running"), EvActivity("security", "tavily")>>)
    /\ pc' = "bp_search"
    /\ UNCHANGED <<kind, status, objStatus, hist, errLen, excLen, env, subs, avail, meta, rows, tasks, replies, libVars>>

\* _tavily_best_practices_search: two searches, OpenAI analysis, else the
\* findings built from the context notes; then the finding events
P_BpSearch ==
    /\ kind = "pipeline" /\ pc = "bp_search" /\ Idle
    /\ \E q1 \in HttpOutcomes, q2 \in HttpOutcomes, oo \in ClientOutcomes,
          n \in Counts(MaxFindings), notes \in 0..1 :
         LET got == q1 = "ok" \/ q2 = "ok"
             early == ~got /\ ~avail.openai
             chatOk == avail.openai /\ ~ChatRaises(oo)
             found == IF chatOk THEN n ELSE 0
             bp == IF ~avail.tavily \/ early THEN 0
                   ELSE IF found > 0 THEN found ELSE notes
             r == IF ~avail.tavily
                  THEN SingleCall("best_practices", FALSE, FALSE, <<>>)
                  ELSE [cap |-> "best_practices",
                        primary |-> IF ~avail.openai THEN "unavailable"
                                    ELSE IF chatOk THEN "ok" ELSE "failed",
                        fallback |-> "none",
                        result |-> IF found > 0 THEN "A"
                                   ELSE IF bp > 0 THEN "local" ELSE "none",
                        raised |-> FALSE,
                        records |-> TavilyRecords(q1) \o TavilyRecords(q2)
                                    \o (IF avail.openai THEN ChatRecords(oo) ELSE <<>>)]
         IN /\ call' = r
            /\ caps' = Invoked(caps, r)
            /\ res' = [res EXCEPT !.bp = bp]
            /\ Emit(Repeat(EvFinding("bp"), bp)
                    \o (IF bp > 0 THEN <<EvActivity("security", "tavily")>> ELSE <<>>))
    /\ pc' = "cve_extract"
    /\ UNCHANGED <<kind, status, objStatus, hist, errLen, excLen, env, subs, avail, meta, rows, tasks, replies, libVars>>


\* 3b. _tavily_extract_and_fastino_cve, run only when cve_results is non-empty.
\* ext: the extract returned content; ans: the search answers are non-empty.
\* Without extracted content the answers are joined outside any try.
P_CveExtract ==
    /\ kind = "pipeline" /\ pc = "cve_extract" /\ Idle
    /\ IF res.cve = 0
       THEN /\ call' = NoCall
            /\ pc' = "bp_research"
            /\ UNCHANGED <<caps, res, published, pending, bidx, dead, excLen, env>>
       ELSE \E hasUrls \in BOOLEAN, eo \in HttpOutcomes, ext \in BOOLEAN,
               ans \in BOOLEAN, fo \in ClientOutcomes, n \in Counts(MaxFindings) :
              LET exText == hasUrls /\ eo = "ok" /\ ext
                  boom == hasUrls /\ ~exText /\ res.ansNull
                  parse == hasUrls /\ ~boom /\ (exText \/ ans) /\ avail.fastino
                  got == IF parse /\ ~FastinoRaises(fo) THEN n ELSE 0
                  recs == (IF hasUrls THEN TavilyRecords(eo) ELSE <<>>)
                          \o (IF parse THEN FastinoRecords(fo) ELSE <<>>)
                  r == [cap |-> "cve_extract",
                        primary |-> IF boom THEN "none"
                                    ELSE IF ~avail.fastino THEN "unavailable"
                                    ELSE IF ~parse THEN "none"
                                    ELSE IF FastinoRaises(fo) THEN "failed" ELSE "ok",
                        fallback |-> "none",
                        result |-> IF got > 0 THEN "A" ELSE "none",
                        raised |-> boom,
                        records |-> recs]
              IN /\ call' = r
                 /\ caps' = Invoked(caps, r)
                 /\ res' = [res EXCEPT !.cveF = got]
                 /\ Emit((IF hasUrls THEN <<EvStatus("security", "running")>> ELSE <<>>)
                         \o (IF parse THEN <<EvStatus("security", "running")>> ELSE <<>>)
                         \o (IF parse /\ ~FastinoRaises(fo)
                             THEN <<EvStatus("security", "running")>> ELSE <<>>)
                         \o Repeat(EvFinding("cve"), got)
                         \o (IF got > 0 THEN <<EvActivity("security", "fastino")>> ELSE <<>>))
                 /\ IF r.raised
                    THEN \E m \in ExcLens : Raise(m, env)
                    ELSE /\ pc' = "bp_research"
                         /\ UNCHANGED <<excLen, env>>
    /\ UNCHANGED <<kind, status, objStatus, hist, errLen, subs,
                   avail, meta, rows, tasks, replies, libVars>>

\* 3c. _tavily_best_practices_research (two queries) and
\* _tavily_extract_best_practices, run only when Tavily is available
P_BpResearch ==
    /\ kind = "pipeline" /\ pc = "bp_research" /\ Idle
    /\ IF ~avail.tavily
       THEN /\ call' = NoCall
            /\ UNCHANGED <<caps, res, published, pending, bidx, dead>>
       ELSE \E q1 \in HttpOutcomes, q2 \in HttpOutcomes, hasRes \in BOOLEAN,
               eo \in HttpOutcomes :
              LET got == hasRes /\ (q1 = "ok" \/ q2 = "ok")
                  recs == TavilyRecords(q1) \o TavilyRecords(q2)
                          \o (IF got THEN TavilyRecords(eo) ELSE <<>>)
                  r == SingleCall("bp_research", TRUE, ~got, recs)
              IN /\ call' = r
                 /\ caps' = Invoked(caps, r)
                 /\ UNCHANGED res
                 /\ Emit(<<EvStatus("security", "running"), EvActivity("security", "tavily")>>
                         \o (IF got THEN <<EvActivity("security", "tavily")>> ELSE <<>>))
    /\ pc' = "quality"
    /\ UNCHANGED <<kind, status, objStatus, hist, errLen, excLen, env, subs, avail, meta, rows, tasks, replies, libVars>>

\* 4. _code_quality_analysis and its finding events
P_Quality ==
    /\ kind = "pipeline" /\ pc = "quality" /\ Idle
    /\ \E k \in 1..(meta.src + 1), fbad \in BadOutcomes, oo \in ClientOutcomes,
          nA \in Counts(meta.src), nB \in Counts(MaxFindings) :
         LET r == CodeQualityAnalysis(avail.fastino, avail.openai, meta.src, k, fbad, oo)
             got == IF r.result = "A" THEN nA ELSE IF r.result = "B" THEN nB ELSE 0
         IN /\ call' = r
            /\ caps' = Invoked(caps, r)
            /\ res' = [res EXCEPT !.quality = got]
            /\ Emit(<<EvStatus("quality", "running"), EvActivity("quality", "fastino")>>
                    \o Repeat(EvFinding("quality"), got)
                    \o (IF got > 0 THEN <<EvActivity("quality", "openai")>> ELSE <<>>))
    /\ pc' = "deep_research"
    /\ UNCHANGED <<kind, status, objStatus, hist, errLen, excLen, env, subs, avail, meta, rows, tasks, replies, libVars>>

\* 5. _deep_research, run only when cve_results is non-empty
P_DeepResearch ==
    /\ kind = "pipeline" /\ pc = "deep_research" /\ Idle
    /\ IF res.cve = 0
       THEN /\ call' = NoCall
            /\ UNCHANGED <<caps, res, published, pending, bidx, dead>>
       ELSE \E yo \in YutoriOutcomes, yn \in Counts(MaxFindings), oo \in ClientOutcomes,
               vn \in Counts(MaxFindings) :
              LET r == DeepResearch(avail.yutori, avail.openai, yo, yn, oo)
              IN /\ call' = r
                 /\ caps' = Invoked(caps, r)
                 /\ res' = [res EXCEPT
                              !.yutori = IF r.result = "A" THEN "list" ELSE "dict",
                              !.yutoriN = IF r.result = "A" THEN yn ELSE 0,
                              !.vulns = IF r.result = "B" THEN vn ELSE 0]
                 /\ Emit(<<EvStatus("security", "running"), EvActivity("security", "yutori")>>)
    /\ pc' = "deep_analyze"
    /\ UNCHANGED <<kind, status, objStatus, hist, errLen, excLen, env, subs, avail, meta, rows, tasks, replies, libVars>>

\* _openai_analyze: the CVE answers are sliced while the prompt is built,
\* outside the try (a null answer raises); then the chat call with outcome
\* oo returning n findings
OpenAIAnalyze(null, oo, n) ==
    IF null
    THEN [NoCall EXCEPT !.cap = "deep_analysis", !.raised = TRUE]
    ELSE [SingleCall("deep_analysis", TRUE, ChatRaises(oo), ChatRecords(oo))
            EXCEPT !.result = IF ~ChatRaises(oo) /\ n > 0 THEN "A" ELSE "none"]

\* 6. deep pattern analysis, run only when OpenAI is available
P_DeepAnalyze ==
    /\ kind = "pipeline" /\ pc = "deep_analyze" /\ Idle
    /\ IF ~avail.openai
       THEN /\ pc' = "fixes"
            /\ call' = NoCall
            /\ UNCHANGED <<caps, env, res, published, pending, bidx, dead, excLen>>
       ELSE \E oo \in ClientOutcomes, n \in Counts(MaxFindings) :
              LET r == OpenAIAnalyze(res.cve > 0 /\ res.ansNull, oo, n)
                  got == IF r.primary = "ok" THEN n ELSE 0
              IN /\ call' = r
                 /\ caps' = Invoked(caps, r)
                 /\ res' = [res EXCEPT !.deep = got]
                 /\ Emit(<<EvStatus("pattern", "running"), EvActivity("pattern", "openai")>>
                         \o Repeat(EvFinding("deep"), got)
                         \o (IF got > 0 THEN <<EvActivity("pattern", "openai")>> ELSE <<>>))
                 /\ IF r.raised
                    THEN \E m \in ExcLens : Raise(m, env)
                    ELSE /\ pc' = "fixes"
                         /\ UNCHANGED <<excLen, env>>
    /\ UNCHANGED <<kind, status, objStatus, hist, errLen, subs, avail, meta, rows, tasks, replies, libVars>>


\* number of findings _merge_findings keeps: the list-valued sources only
MergeCount(r) ==
    r.cveF + r.bp + r.quality + r.deep + (IF r.yutori = "list" THEN r.yutoriN ELSE 0)

\* _generate_fixes: openai.chat is called with keywords it does not accept,
\* the TypeError is caught and _fallback_fixes builds the list
GenerateFixes(total) ==
    [cap |-> "fix_generation", primary |-> "failed", fallback |-> "none",
     result |-> "local", raised |-> FALSE, records |-> <<>>,
     fixes |-> Min(total, FallbackFixMax)]

\* aggregate, score, 7. fix generation when there are findings and OpenAI
P_Fixes ==
    /\ kind = "pipeline" /\ pc = "fixes" /\ Idle
    /\ IF MergeCount(res) > 0 /\ avail.openai
       THEN LET g == GenerateFixes(MergeCount(res))
            IN /\ call' = [cap |-> g.cap, primary |-> g.primary,
                           fallback |-> g.fallback, result |-> g.result,
                           raised |-> g.raised, records |-> g.records]
               /\ res' = [res EXCEPT !.fixes = g.fixes]
               /\ Emit(<<EvStatus("doctor", "running"), EvActivity("doctor", "openai")>>
                       \o (IF g.fixes > 0 THEN <<EvActivity("doctor", "openai")>> ELSE <<>>)
                       \o <<EvStatus("doctor", "complete")>>)
       ELSE /\ call' = NoCall
            /\ UNCHANGED <<res, published, pending, bidx, dead>>
    /\ pc' = "graph"
    /\ UNCHANGED <<kind, status, objStatus, hist, errLen, excLen, env, subs, avail, meta, caps, rows, tasks, replies, libVars>>

\* nodes and edges _build_neo4j_graph returns: root, files, packages
GraphNodes(m) == 1 + m.files + (IF m.deps THEN 1 ELSE 0)

GraphEdges(m) == m.files

\* 8. _build_neo4j_graph: best-effort writes when is_connected(), then the
\* graph events
P_Graph ==
    /\ kind = "pipeline" /\ pc = "graph" /\ Idle
    /\ \E connected \in BOOLEAN, wfail \in BOOLEAN :
         /\ call' = [cap |-> "graph_write",
                     primary |-> IF ~connected THEN "unavailable"
                                 ELSE IF wfail THEN "failed" ELSE "ok",
                     fallback |-> "none",
                     result |-> IF connected /\ ~wfail THEN "A" ELSE "none",
                     raised |-> FALSE, records |-> <<>>]
         /\ caps' = IF connected THEN caps \cup {"graph_write"} ELSE caps
         /\ res' = [res EXCEPT
                      !.neo4j = IF ~connected THEN "json"
                                ELSE IF wfail THEN "partial" ELSE "written",
                      !.nodes = GraphNodes(meta)]
    /\ Emit(<<EvStatus("orchestrator", "running"), EvActivity("mapper", "neo4j")>>
            \o Repeat(Ev("graph_node", "", ""), GraphNodes(meta))
            \o Repeat(Ev("graph_edge", "", ""), GraphEdges(meta))
            \o <<EvActivity("mapper", "neo4j")>>)
    /\ pc' = "finalize"
    /\ UNCHANGED <<kind, status, objStatus, hist, errLen, excLen, env, subs, avail, meta, rows, tasks, replies, libVars>>

TerminalOrder_PublishFirst == "publish_first"

\* run_pipeline awaits _finalize before it calls _ws_complete
TerminalOrder == "persist_first"

\* _finalize persists COMPLETED with the results, then _ws_complete
P_Finalize ==
    /\ kind = "pipeline" /\ pc = "finalize" /\ Idle
    /\ \E ok \in BOOLEAN :
         IF ok
         THEN /\ SetStatus("completed")
              \* graph_nodes and graph_edges of the Analysis record
              /\ res' = [res EXCEPT !.record = "graph"]
              /\ Emit(<<Ev("complete", "", "")>>)
              /\ pc' = "done"
              /\ UNCHANGED <<excLen, env>>
         ELSE /\ StoreRaise
              /\ IF TerminalOrder = "publish_first"
                 THEN Emit(<<Ev("complete", "", "")>>)
                 ELSE UNCHANGED <<published, pending, bidx, dead>>
              /\ UNCHANGED <<status, hist, res>>
    /\ UNCHANGED <<kind, objStatus, errLen, subs, avail, meta,
                   call, caps, rows, tasks, replies, libVars>>

PipelineStep ==
    \/ P_Start \/ P_CloneSpawn \/ P_Mapping \/ P_Classify \/ P_SaveMeta
    \/ P_SetAnalyzing \/ P_CveSearch \/ P_BpSearch \/ P_CveExtract
    \/ P_BpResearch \/ P_Quality \/ P_DeepResearch \/ P_DeepAnalyze
    \/ P_Fixes \/ P_Graph \/ P_Finalize \/ P_Except

\* ------------------------------------------------- OrchestratorAgent.run
\* what the steps of the orchestrator leave alone
OrchFrame == UNCHANGED <<kind, errLen, excLen, subs, avail, meta, res, caps, env,
                         rows, tasks, replies, libVars>>

\* self.db.commit(): the dirty self.analysis.status s is persisted, or the
\* commit raises inside execute
Commit(s, ev, next) ==
    \E ok \in BOOLEAN :
      IF ok
      THEN /\ SetStatus(s)
           /\ Emit(<<ev>>)
           /\ pc' = next
      ELSE /\ pc' = "o_error"
           /\ UNCHANGED <<status, hist, published, pending, bidx, dead>>

\* BaseAgent.run: await self.on_start()
O_OnStart ==
    /\ kind = "orchestrator" /\ pc = "o_start" /\ Idle
    /\ Emit(<<EvStatus("orchestrator", "starting")>>)
    /\ pc' = "o_exec"
    /\ UNCHANGED <<status, objStatus, hist, call>>
    /\ OrchFrame

\* execute, 1: status = CLONING, commit, broadcast
O_Exec ==
    /\ kind = "orchestrator" /\ pc = "o_exec" /\ Idle
    /\ objStatus' = "cloning"
    /\ Commit("cloning", EvStatus("orchestrator", "cloning"), "o_clone")
    /\ UNCHANGED call
    /\ OrchFrame

\* _clone_repo: an existing clone directory is reused, else git is spawned
O_Clone ==
    /\ kind = "orchestrator" /\ pc = "o_clone" /\ Idle
    /\ \E exists \in BOOLEAN : pc' = IF exists THEN "o_map" ELSE "o_clone_wait"
    /\ UNCHANGED <<status, objStatus, hist, call, published, pending, bidx, dead>>
    /\ OrchFrame

\* the awaited proc.communicate() returns with return code rc
O_CloneReturns(rc) ==
    /\ kind = "orchestrator" /\ pc = "o_clone_wait"
    /\ pc' = IF rc = 0 THEN "o_map" ELSE "o_error"
    /\ UNCHANGED <<status, objStatus, hist, call, published, pending, bidx, dead>>
    /\ OrchFrame

\* execute, 2: status = MAPPING (not committed), broadcast
O_Map ==
    /\ kind = "orchestrator" /\ pc = "o_map" /\ Idle
    /\ objStatus' = "mapping"
    /\ Emit(<<EvStatus("orchestrator", "mapping")>>)
    /\ pc' = "o_stats"
    /\ UNCHANGED <<status, hist, call>>
    /\ OrchFrame

\* _compute_basic_stats, then 3: status = ANALYZING (not committed), broadcast
O_Stats ==
    /\ kind = "orchestrator" /\ pc = "o_stats" /\ Idle
    /\ \E ok \in BOOLEAN :
         IF ok
         THEN /\ objStatus' = "analyzing"
              /\ Emit(<<EvStatus("orchestrator", "github_metadata")>>)
              /\ pc' = "o_github"
         ELSE /\ pc' = "o_error"
              /\ UNCHANGED <<objStatus, published, pending, bidx, dead>>
    /\ UNCHANGED <<status, hist, call>>
    /\ OrchFrame

\* fetch_repo_metadata, search_repo_context, classify_text: each inside its
\* own try/except, the result only enters the stats; then the next broadcast
O_Enrich ==
    /\ kind = "orchestrator" /\ Idle
    /\ \/ /\ pc = "o_github"
          /\ Emit(<<EvStatus("orchestrator", "tavily_enrichment")>>)
          /\ pc' = "o_tavily"
       \/ /\ pc = "o_tavily"
          /\ Emit(<<EvStatus("orchestrator", "fastino_scoring")>>)
          /\ pc' = "o_fastino"
       \/ /\ pc = "o_fastino"
          /\ Emit(<<EvStatus("orchestrator", "deep_reasoning")>>)
          /\ pc' = "o_reason"
    /\ UNCHANGED <<status, objStatus, hist, call>>
    /\ OrchFrame

\* 6: get_reasoning_provider().reason(...) inside try/except
O_Reason ==
    /\ kind = "orchestrator" /\ pc = "o_reason" /\ Idle
    /\ \E yo \in ClientOutcomes, oo \in ClientOutcomes :
         call' = HybridReason(avail.yutori, avail.openai, yo, oo)
    /\ Emit(<<EvStatus("orchestrator", "neo4j_graph")>>)
    /\ pc' = "o_neo"
    /\ UNCHANGED <<status, objStatus, hist>>
    /\ OrchFrame

\* 7: the Neo4j write inside try/except, then status = COMPLETED, commit,
\* broadcast
O_Final ==
    /\ kind = "orchestrator" /\ pc = "o_neo" /\ Idle
    /\ objStatus' = "completed"
    /\ Commit("completed", EvStatus("orchestrator", "completed"), "o_complete")
    /\ UNCHANGED call
    /\ OrchFrame

\* BaseAgent.run: await self.on_complete()
O_OnComplete ==
    /\ kind = "orchestrator" /\ pc = "o_complete" /\ Idle
    /\ Emit(<<EvStatus("orchestrator", "completed")>>)
    /\ pc' = "o_done"
    /\ UNCHANGED <<status, objStatus, hist, call>>
    /\ OrchFrame

\* BaseAgent.run: except Exception -> on_error (status = FAILED, commit,
\* broadcast), then raise
O_OnError ==
    /\ kind = "orchestrator" /\ pc = "o_error" /\ Idle
    /\ objStatus' = "failed"
    /\ \E ok \in BOOLEAN :
         IF ok
         THEN /\ SetStatus("failed")
              /\ Emit(<<EvStatus("orchestrator", "failed")>>)
         ELSE UNCHANGED <<status, hist, published, pending, bidx, dead>>
    /\ pc' = "o_raised"
    /\ UNCHANGED call
    /\ OrchFrame

OrchestratorStep ==
    \/ O_OnStart \/ O_Exec \/ O_Clone \/ O_Map \/ O_Stats \/ O_Enrich
    \/ O_Reason \/ O_Final \/ O_OnComplete \/ O_OnError

\* --------------------------------------------------------- specifications
InitEngine(k) ==
    /\ kind = k
    /\ pc = IF k = "pipeline" THEN "start" ELSE "o_start"
    /\ status = "queued" /\ objStatus = "queued" /\ hist = <<"queued">>
    /\ errLen = -1 /\ excLen = 0
    /\ published = <<>> /\ pending = <<>>
    /\ \E n \in 0..MaxSubs : subs = [i \in 1..n |-> i]
    /\ bidx = 0 /\ dead = {}
    /\ avail \in [Providers -> BOOLEAN]
    /\ meta = EmptyMeta /\ res = EmptyRes /\ call = NoCall /\ caps = {}
    /\ env = EmptyEnv

Init ==
    /\ \E k \in {"pipeline", "orchestrator"} : InitEngine(k)
    /\ rows = {} /\ tasks = <<>> /\ replies = <<>>
    /\ LibIdle

Next ==
    \/ PipelineStep
    \/ \E rc \in {0, 128} : P_CloneReturns(rc)
    \/ OrchestratorStep
    \/ \E rc \in {0, 128} : O_CloneReturns(rc)
    \/ \E ok \in BOOLEAN : SendReturns(ok)

Spec == Init /\ [][Next]_vars

\* weak fairness on the engine coroutine's own steps: the event loop resumes
\* a runnable coroutine.  Nothing bounds the awaited proc.communicate() or
\* ws.send_json(), so their return carries no fairness.
FairSpec ==
    /\ Spec
    /\ WF_vars(PipelineStep)
    /\ WF_vars(OrchestratorStep)

\* ------------------------------------------------ start_analysis (POST /analyze)
UniqueAnalysisId_Dropped == FALSE

\* analyses.analysis_id is declared unique=True: a second row with the same
\* id makes the INSERT's commit raise
UniqueAnalysisId == TRUE

\* number of parts of repo_url.rstrip("/").split("/") tried
UrlParts == {MinUrlParts - 1, MinUrlParts, MinUrlParts + 1}

\* requests received so far
Requests == Len(tasks) + CountIn(replies, LAMBDA c : c = 400)

\* start_analysis up to the awaited db.commit(): URL check, then
\* generate_analysis_id() returns id
S_Request(nparts, id) ==
    /\ kind = "none" /\ Requests < MaxRequests
    /\ IF nparts < MinUrlParts
       THEN /\ replies' = Append(replies, 400)
            /\ UNCHANGED <<tasks, rows>>
       ELSE /\ tasks' = Append(tasks, [id |-> id, st |-> "commit"])
            /\ UNCHANGED <<replies, rows>>
    /\ UNCHANGED <<engineVars, libVars>>

\* the commit of request k returns: the row is inserted and the engine task
\* created (202), or the commit raises (500)
S_Commit(k, dbOk) ==
    /\ kind = "none" /\ k \in 1..Len(tasks) /\ tasks[k].st = "commit"
    /\ LET id == tasks[k].id
           dup == UniqueAnalysisId /\ id \in rows
       IN IF dbOk /\ ~dup
          THEN /\ rows' = rows \cup {id}
               /\ tasks' = [tasks EXCEPT ![k].st = "running"]
               /\ replies' = Append(replies, 202)
          ELSE /\ tasks' = [tasks EXCEPT ![k].st = "rejected"]
               /\ replies' = Append(replies, 500)
               /\ UNCHANGED rows
    /\ UNCHANGED <<engineVars, libVars>>

\* the task of request k (run_orchestrator) returns or raises
S_TaskEnds(k) ==
    /\ kind = "none" /\ k \in 1..Len(tasks) /\ tasks[k].st = "running"
    /\ tasks' = [tasks EXCEPT ![k].st = "ended"]
    /\ UNCHANGED <<rows, replies>>
    /\ UNCHANGED <<engineVars, libVars>>

\* engine tasks running on analysis id
ActiveRuns(id) == {k \in 1..Len(tasks) : tasks[k].id = id /\ tasks[k].st = "running"}

InitSubmit ==
    /\ kind = "none" /\ pc = "none"
    /\ status = "queued" /\ objStatus = "queued" /\ hist = <<"queued">>
    /\ errLen = -1 /\ excLen = 0
    /\ published = <<>> /\ pending = <<>> /\ subs = <<>>
    /\ bidx = 0 /\ dead = {}
    /\ avail = [p \in Providers |-> FALSE]
    /\ meta = EmptyMeta /\ res = EmptyRes /\ call = NoCall /\ caps = {}
    /\ env = EmptyEnv
    /\ rows = {} /\ tasks = <<>> /\ replies = <<>>
    /\ LibIdle

NextSubmit ==
    \/ \E n \in UrlParts, id \in 1..MaxIds : S_Request(n, id)
    \/ \E k \in 1..MaxRequests, dbOk \in BOOLEAN : S_Commit(k, dbOk)
    \/ \E k \in 1..MaxRequests : S_TaskEnds(k)

SubmitSpec == InitSubmit /\ [][NextSubmit]_vars

\* ============================================================ log_tool_call
LogToolCallOnWriteError_Propagate == "propagate"

\* log_tool_call: what the except clause around the session does with a
\* failed write
LogToolCallOnWriteError == "swallow"

NoRows == [rows |-> <<>>, raised |-> FALSE]

\* log_tool_call(rec): the ToolCall is built, the write is attempted (wok:
\* the commit succeeds), the ToolCall is returned
LogToolCall(rec, wok) ==
    [rows |-> IF wok THEN <<rec>> ELSE <<>>,
     raised |-> ~wok /\ LogToolCallOnWriteError = "propagate"]

\* OpenAIClient.chat with HTTP outcome o: the success record is written inside
\* the try (w1), the error record inside the except clause (w2), which
\* re-raises
ChatCall(o, w1, w2) ==
    LET first == IF o \in {"ok", "malformed"}
                 THEN LogToolCall(Rec("openai", "success"), w1) ELSE NoRows
        failed == ChatRaises(o) \/ first.raised
        second == IF failed
                  THEN LogToolCall(Rec("openai", "error"), w2) ELSE NoRows
    IN [rows |-> first.rows \o second.rows,
        raised |-> failed,
        value |-> IF failed THEN "none" ELSE "B"]

\* a stage that calls chat inside its own try/except and degrades to an
\* empty result (the OpenAI branch of _deep_research)
StageChat(o, w1, w2) ==
    LET c == ChatCall(o, w1, w2)
    IN [op |-> "chat", rows |-> c.rows, raised |-> FALSE,
        result |-> IF c.raised THEN "empty" ELSE c.value]

\* _clone_repo after git returned rc: log_tool_call outside any try, then
\* RuntimeError when rc # 0
CloneLog(rc, w) ==
    LET l == LogToolCall(Rec("git", IF rc = 0 THEN "success" ELSE "error"), w)
    IN [op |-> "clone", rows |-> l.rows, raised |-> l.raised \/ rc # 0,
        result |-> IF l.raised \/ rc # 0 THEN "raised" ELSE "cloned"]

AuditFrame ==
    UNCHANGED <<kind, pc, objStatus, hist, errLen, excLen, published, pending,
                subs, bidx, dead, avail, meta, res, call, caps, env,
                rows, tasks, replies, wsVars, neo>>

\* 1. CLONE of run_pipeline: the clone is logged; an exception leaving
\* _clone_repo ends the run FAILED, otherwise the status becomes MAPPING
A_Clone(rc, w) ==
    /\ kind = "audit" /\ status = "cloning"
    /\ LET r == CloneLog(rc, w)
       IN /\ auditRows' = auditRows \o r.rows
          /\ args' = Append(args, [op |-> "clone", o |-> rc, w1 |-> w, w2 |-> TRUE])
          /\ ret' = Append(ret, r.result)
          /\ status' = IF r.raised THEN "failed" ELSE "mapping"
    /\ AuditFrame

\* _update_status(ANALYZING)
A_SetAnalyzing ==
    /\ kind = "audit" /\ status = "mapping"
    /\ status' = "analyzing"
    /\ UNCHANGED libVars
    /\ AuditFrame

\* a stage of the run calls OpenAIClient.chat
A_Chat(o, w1, w2) ==
    /\ kind = "audit" /\ status \in {"mapping", "analyzing"}
    /\ Len(args) <= MaxAuditCalls
    /\ LET r == StageChat(o, w1, w2)
       IN /\ auditRows' = auditRows \o r.rows
          /\ args' = Append(args, [op |-> "chat", o |-> o, w1 |-> w1, w2 |-> w2])
          /\ ret' = Append(ret, r.result)
    /\ UNCHANGED status
    /\ AuditFrame

InitAudit ==
    /\ kind = "audit" /\ pc = "none"
    /\ status = "cloning" /\ objStatus = "queued" /\ hist = <<"queued">>
    /\ errLen = -1 /\ excLen = 0
    /\ published = <<>> /\ pending = <<>> /\ subs = <<>>
    /\ bidx = 0 /\ dead = {}
    /\ avail = [p \in Providers |-> p = "openai"]
    /\ meta = EmptyMeta /\ res = EmptyRes /\ call = NoCall /\ caps = {}
    /\ env = EmptyEnv
    /\ rows = {} /\ tasks = <<>> /\ replies = <<>>
    /\ auditRows = <<>> /\ args = <<>> /\ ret = <<>>
    /\ WsIdle /\ neo = EmptyNeo

NextAudit ==
    \/ \E rc \in {0, 128}, w \in BOOLEAN : A_Clone(rc, w)
    \/ A_SetAnalyzing
    \/ \E o \in ClientOutcomes, w1 \in BOOLEAN, w2 \in BOOLEAN : A_Chat(o, w1, w2)

AuditSpec == InitAudit /\ [][NextAudit]_vars

\* ======================================================= single functions
\* the engine variables while one function is specified on its own
InitFn(k) ==
    /\ kind = k /\ pc = "none"
    /\ status = "analyzing" /\ objStatus = "queued" /\ hist = <<"queued">>
    /\ errLen = -1 /\ excLen = 0
    /\ published = <<>> /\ pending = <<>> /\ subs = <<>>
    /\ bidx = 0 /\ dead = {}
    /\ avail = [p \in Providers |-> FALSE]
    /\ meta = EmptyMeta /\ res = EmptyRes /\ call = NoCall /\ caps = {}
    /\ env = EmptyEnv
    /\ rows = {} /\ tasks = <<>> /\ replies = <<>>
    /\ auditRows = <<>>
    /\ WsIdle /\ neo = EmptyNeo

FnFrame == UNCHANGED <<engineVars, rows, tasks, replies, auditRows, wsVars, neo>>

\* all sequences over S of length at most n
SeqsUpTo(S, n) == UNION {[1..k -> S] : k \in 0..n}

\* ---------------------------------------------------------- _merge_findings
\* items a stage result can hold: two different findings carrying the same
\* id, a dict without an id key, a value that is not a dict
MergeItems ==
    {[dict |-> TRUE, hasId |-> TRUE, body |-> "first"],
     [dict |-> TRUE, hasId |-> TRUE, body |-> "second"],
     [dict |-> TRUE, hasId |-> FALSE, body |-> "first"],
     [dict |-> FALSE, hasId |-> FALSE, body |-> "first"]}

\* stage results: lists of items, and results that are not lists ({} or the
\* dict the OpenAI branch of _deep_research returns)
MergeSources ==
    {[list |-> TRUE, items |-> q] : q \in SeqsUpTo(MergeItems, MaxMergeItems)}
    \cup {[list |-> FALSE, items |-> q] :
             q \in SeqsUpTo({[dict |-> TRUE, hasId |-> TRUE, body |-> "first"]}, 1)}

\* isinstance(item, dict) and "id" in item
Kept(item) == item.dict /\ item.hasId

RECURSIVE KeepItems(_)
KeepItems(items) ==
    IF items = <<>> THEN <<>>
    ELSE (IF Kept(Head(items)) THEN <<Head(items)>> ELSE <<>>)
         \o KeepItems(Tail(items))

\* a merge that keeps one finding per id (every id-carrying item of MergeItems
\* carries the same id)
RECURSIVE MergeFindings_Dedup(_)
MergeFindings_Dedup(sources) ==
    IF sources = <<>> THEN <<>>
    ELSE LET init == MergeFindings_Dedup(SubSeq(sources, 1, Len(sources) - 1))
             src == sources[Len(sources)]
             new == IF src.list THEN KeepItems(src.items) ELSE <<>>
         IN init \o (IF new # <<>> /\ init = <<>> THEN <<Head(new)>> ELSE <<>>)

\* _merge_findings(*sources)
RECURSIVE MergeFindings(_)
MergeFindings(sources) ==
    IF sources = <<>> THEN <<>>
    ELSE (IF Head(sources).list THEN KeepItems(Head(sources).items) ELSE <<>>)
         \o MergeFindings(Tail(sources))

F_Merge ==
    /\ kind = "merge" /\ ret = NoRet
    /\ ret' = [all_f |-> MergeFindings(args)]
    /\ UNCHANGED args
    /\ FnFrame

InitMerge ==
    /\ InitFn("merge")
    /\ args \in SeqsUpTo(MergeSources, MaxMergeSources)
    /\ ret = NoRet

NextMerge == F_Merge

MergeSpec == InitMerge /\ [][NextMerge]_vars

\* ------------------------------------------- findings built by the stages
Absent == "absent"

Severities == {"critical", "warning", "info"}

\* items of the "findings" array of a provider answer: the id and severity
\* strings are the provider's; either key may be missing
RawItems ==
    {[id |-> 1, severity |-> "critical"],
     [id |-> 1, severity |-> "high"],
     [id |-> 2, severity |-> "Critical"],
     [id |-> 0, severity |-> Absent]}

\* finding ids: <<"llm", "any", k>> is the k-th id string a provider may
\* answer with; <<prefix, stage, i>> is prefix + uuid4().hex[:6] drawn for
\* item i of a stage (random draws are taken to be pairwise different)
FindingId(raw, prefix, stage, i) ==
    IF raw.id = 0 THEN <<prefix, stage, i>> ELSE <<"llm", "any", raw.id>>

\* the dict the OpenAI stages append for item i of the answer
\* (_tavily_best_practices_research, _openai_code_quality, _openai_analyze)
OpenAIFinding(raw, prefix, stage, i, defaultSeverity) ==
    [dict |-> TRUE, hasId |-> TRUE,
     id |-> FindingId(raw, prefix, stage, i),
     severity |-> IF raw.severity = Absent THEN defaultSeverity
                  ELSE raw.severity]

\* str.lower() on the severity strings of RawItems
Lower(str) == IF str = "Critical" THEN "critical" ELSE str

\* _yutori_research: severity normalisation
YutoriSeverity(sv) ==
    LET l == Lower(IF sv = Absent THEN "info" ELSE sv)
    IN IF l \in Severities THEN l
       ELSE IF l \in {"high", "medium"} THEN "warning" ELSE "info"

\* the dict _yutori_research appends for item i: the id is always drawn
YutoriFinding(raw, i) ==
    [dict |-> TRUE, hasId |-> TRUE,
     id |-> <<"fnd_yutori_", "deep_research", i>>,
     severity |-> YutoriSeverity(raw.severity)]

StageList(raws, F(_, _)) ==
    [list |-> TRUE, items |-> [i \in 1..Len(raws) |-> F(raws[i], i)]]

\* run_pipeline, stages 3 to 6 and Aggregate Findings: the lists the stages
\* build from the provider answers a, merged in the order of line 151
AllFindings(a) ==
    MergeFindings(<<
        StageList(a.bp, LAMBDA r, i :
            OpenAIFinding(r, "fnd_bp_", "best_practices", i, "warning")),
        StageList(a.quality, LAMBDA r, i :
            OpenAIFinding(r, "fnd_", "code_quality", i, "warning")),
        StageList(a.deep, LAMBDA r, i :
            OpenAIFinding(r, "fnd_", "deep_analysis", i, "info")),
        StageList(a.yutori, LAMBDA r, i : YutoriFinding(r, i))>>)

\* _finalize persists all_findings as they are
F_Aggregate ==
    /\ kind = "findings" /\ ret = NoRet
    /\ ret' = [all_f |-> AllFindings(args)]
    /\ UNCHANGED args
    /\ FnFrame

InitFindings ==
    /\ InitFn("findings")
    /\ args \in [bp : SeqsUpTo(RawItems, MaxRawItems),
                 quality : SeqsUpTo(RawItems, MaxRawItems),
                 deep : SeqsUpTo(RawItems, MaxRawItems),
                 yutori : SeqsUpTo(RawItems, MaxRawItems)]
    /\ ret = NoRet

NextFindings == F_Aggregate

FindingsSpec == InitFindings /\ [][NextFindings]_vars

\* ----------------------------------------------------- _compute_health_score
Max(a, b) == IF a > b THEN a ELSE b

\* findings as the score reads them: severity, agent, and whether the type
\* contains "architecture"
ScoreKinds ==
    {[severity |-> "critical", agent |-> "security", arch |-> FALSE],
     [severity |-> "warning", agent |-> "quality", arch |-> FALSE],
     [severity |-> "info", agent |-> "pattern", arch |-> FALSE],
     [severity |-> "warning", agent |-> "pattern", arch |-> TRUE],
     [severity |-> "high", agent |-> "quality", arch |-> FALSE]}

\* c critical findings, then w warnings, then i info findings
ScoreBlocks(c, w, i) ==
    Repeat([severity |-> "critical", agent |-> "security", arch |-> FALSE], c)
    \o Repeat([severity |-> "warning", agent |-> "quality", arch |-> FALSE], w)
    \o Repeat([severity |-> "info", agent |-> "pattern", arch |-> FALSE], i)

\* a count that stops at the first finding of another severity
SeverityCount_Leading(findings, sev) ==
    IF \A k \in 1..Len(findings) : findings[k].severity = sev
    THEN Len(findings)
    ELSE (CHOOSE k \in 1..Len(findings) :
             /\ findings[k].severity # sev
             /\ \A j \in 1..(k - 1) : findings[j].severity = sev) - 1

\* sum(1 for f in findings if f.get("severity") == sev)
SeverityCount(findings, sev) ==
    CountIn(findings, LAMBDA f : f.severity = sev)

\* a penalty that leaves the info findings out (in tenths)
PenaltyTenths_NoInfo(critical, warnings, info) ==
    30 * critical + 10 * warnings

\* penalty = critical * 3 + warnings * 1 + info * 0.2, in tenths
PenaltyTenths(critical, warnings, info) ==
    30 * critical + 10 * warnings + 2 * info

\* Python's round() of t tenths: nearest integer, ties to the even one
RoundHalfEven(t) ==
    LET q == t \div 10
        r == t % 10
    IN IF r < 5 THEN q
       ELSE IF r > 5 THEN q + 1
       ELSE IF q % 2 = 0 THEN q ELSE q + 1

\* grade with exclusive thresholds
Grade_Exclusive(score) ==
    IF score > 97 THEN "A+" ELSE IF score > 93 THEN "A"
    ELSE IF score > 90 THEN "A-" ELSE IF score > 87 THEN "B+"
    ELSE IF score > 83 THEN "B" ELSE IF score > 80 THEN "B-"
    ELSE IF score > 77 THEN "C+" ELSE IF score > 73 THEN "C"
    ELSE IF score > 70 THEN "C-" ELSE IF score > 60 THEN "D" ELSE "F"

\* grade(score)
Grade(score) ==
    IF score >= 97 THEN "A+" ELSE IF score >= 93 THEN "A"
    ELSE IF score >= 90 THEN "A-" ELSE IF score >= 87 THEN "B+"
    ELSE IF score >= 83 THEN "B" ELSE IF score >= 80 THEN "B-"
    ELSE IF score >= 77 THEN "C+" ELSE IF score >= 73 THEN "C"
    ELSE IF score >= 70 THEN "C-" ELSE IF score >= 60 THEN "D" ELSE "F"

\* _compute_health_score(findings, stats): stats is not read
ComputeHealthScore(findings) ==
    LET critical == SeverityCount(findings, "critical")
        warnings == SeverityCount(findings, "warning")
        info == SeverityCount(findings, "info")
        penalty == PenaltyTenths(critical, warnings, info)
        overall == Max(0, Min(100, RoundHalfEven(1000 - penalty * 2)))
        patterns == CountIn(findings, LAMBDA f : f.agent = "pattern")
        archs == CountIn(findings, LAMBDA f : f.arch)
    IN [overall |-> overall,
        letterGrade |-> Grade(overall),
        breakdown |->
          [codeQuality |-> [score |-> Max(0, 10 - warnings),
                            status |-> IF warnings > 3 THEN "warning" ELSE "healthy"],
           security |-> [score |-> Max(0, 10 - critical * 3),
                         status |-> IF critical > 0 THEN "critical" ELSE "healthy"],
           patterns |-> [score |-> Max(0, 10 - patterns),
                         status |-> IF patterns > 0 THEN "warning" ELSE "healthy"],
           dependencies |-> [score |-> Max(0, 10 - critical),
                             status |-> IF critical > 0 THEN "warning" ELSE "healthy"],
           architecture |-> [score |-> Max(5, 10 - archs),
                             status |-> IF archs > 0 THEN "warning" ELSE "healthy"]]]

F_Score ==
    /\ kind = "score" /\ ret = NoRet
    /\ ret' = ComputeHealthScore(args.findings)
    /\ UNCHANGED args
    /\ FnFrame

InitScore ==
    /\ InitFn("score")
    /\ \/ \E q \in SeqsUpTo(ScoreKinds, MaxScoreLen) : args = [findings |-> q]
       \/ \E c \in 0..MaxCritical, w \in 0..MaxWarnings, i \in 0..MaxInfo :
             args = [findings |-> ScoreBlocks(c, w, i)]
    /\ ret = NoRet

NextScore == F_Score

ScoreSpec == InitScore /\ [][NextScore]_vars

\* -------------------------------------------------------- _build_neo4j_graph
\* Strings are sequences of tokens: a name token ("a", "b", "x", "root"), one
\* of the characters "/", ".", "-", " ", "_", or a literal of the code
\* ("dir_", "file_", "pkg_", "edge_", the analysis id "ID").

\* a path is the sequence of its segments; the empty sequence is "/"
RootDir == <<>>

\* paths of metadata["files"], as relative paths of the clone
GraphPaths ==
    {<< <<"a">>, <<"b">> >>,               \* a/b
     << <<"a", "-", "b">> >>,              \* a-b
     << <<"a", ".", "b">> >>,              \* a.b
     << <<"a", " ", "b">> >>,              \* "a b"
     << <<"b">> >>,                        \* b
     << <<"root">>, <<"b">> >>,            \* root/b
     << <<"a">>, <<"a">>, <<"b">> >>}      \* a/a/b

\* names of metadata["dependencies"]
GraphDeps == {<<"x">>, <<"s", "/", "x">>, <<"s", "_", "x">>}

\* sequences over S without repetition, of length at most n
DistinctSeqs(S, n) ==
    {q \in SeqsUpTo(S, n) : \A i, j \in 1..Len(q) : (i # j) => (q[i] # q[j])}

\* "/".join(segments)
RECURSIVE JoinPath(_)
JoinPath(segs) ==
    IF segs = <<>> THEN <<>>
    ELSE IF Len(segs) = 1 THEN segs[1]
    ELSE segs[1] \o <<"/">> \o JoinPath(Tail(segs))

ReplaceAll(str, from, to) ==
    [k \in 1..Len(str) |-> IF str[k] \in from THEN to ELSE str[k]]

\* _safe_id(s)
SafeId(str) == ReplaceAll(str, {"/", ".", "-", " "}, "_")

\* ensure_dir: nid
DirId(d) ==
    IF d = RootDir THEN <<"dir_", "ID", "_", "root">>
    ELSE <<"dir_", "ID", "_">> \o SafeId(JoinPath(d))

FileId(path) == <<"file_", "ID", "_">> \o SafeId(JoinPath(path))

PkgId(name) == <<"pkg_", "ID", "_">> \o ReplaceAll(name, {"/"}, "_")

EdgeId(parent_id, nid) == <<"edge_">> \o parent_id \o <<"_">> \o nid

Parent(path) == SubSeq(path, 1, Len(path) - 1)

EmptyGraph == [nodes |-> <<>>, edges |-> <<>>, dir_nodes |-> {}]

\* ensure_dir(dir_path) on the graph g built so far
\* the directory is memoised but its node is not appended
EnsureDir_NoNode(d, g) == [g EXCEPT !.dir_nodes = @ \cup {d}]

RECURSIVE EnsureDir(_, _)
EnsureDir(d, g) ==
    IF d \in g.dir_nodes THEN g
    ELSE LET g1 == [g EXCEPT !.nodes = Append(@, [id |-> DirId(d), type |-> "directory"]),
                             !.dir_nodes = @ \cup {d}]
         IN IF d = RootDir THEN g1
            ELSE LET g2 == EnsureDir(Parent(d), g1)
                 IN [g2 EXCEPT !.edges =
                        Append(@, [id |-> EdgeId(DirId(Parent(d)), DirId(d)),
                                   source |-> DirId(Parent(d)),
                                   target |-> DirId(d)])]

\* the loop over metadata["files"]
RECURSIVE AddFiles(_, _)
AddFiles(files, g) ==
    IF files = <<>> THEN g
    ELSE LET f == Head(files)
             g1 == [g EXCEPT !.nodes = Append(@, [id |-> FileId(f), type |-> "file"])]
             g2 == EnsureDir(Parent(f), g1)
             g3 == [g2 EXCEPT !.edges =
                       Append(@, [id |-> EdgeId(DirId(Parent(f)), FileId(f)),
                                  source |-> DirId(Parent(f)),
                                  target |-> FileId(f)])]
         IN AddFiles(Tail(files), g3)

\* the loop over metadata["dependencies"]
RECURSIVE AddPackages(_, _)
AddPackages(deps, g) ==
    IF deps = <<>> THEN g
    ELSE AddPackages(Tail(deps),
             [g EXCEPT !.nodes = Append(@, [id |-> PkgId(Head(deps)), type |-> "package"])])

\* _build_neo4j_graph: the graph returned
BuildGraph(files, deps) ==
    LET g == AddPackages(deps, AddFiles(files, EnsureDir(RootDir, EmptyGraph)))
    IN [nodes |-> g.nodes, edges |-> g.edges]

F_BuildGraph ==
    /\ kind = "graph" /\ ret = NoRet
    /\ ret' = BuildGraph(args.files, args.dependencies)
    /\ UNCHANGED args
    /\ FnFrame

InitGraph ==
    /\ InitFn("graph")
    /\ args \in [files : DistinctSeqs(GraphPaths, MaxGraphFiles),
                 dependencies : SeqsUpTo(GraphDeps, MaxGraphDeps)]
    /\ ret = NoRet

NextGraph == F_BuildGraph

GraphSpec == InitGraph /\ [][NextGraph]_vars

\* ------------------------------------- _build_neo4j_graph: Neo4j persistence
GraphWriteOnError_Propagate == "propagate"

\* what the try/except around each write of _build_neo4j_graph does with a
\* failed write
GraphWriteOnError == "skip"

\* paths of metadata["files"] and of finding locations
PersistPaths ==
    {<< <<"a">>, <<"b">> >>,               \* a/b
     << <<"a", "-", "b">> >>,              \* a-b
     << <<"b">> >>}                        \* b

\* findings as the graph writes read them: id, location.files, cve id
PersistFindings ==
    {[id |-> <<"fnd", "1">>, files |-> << << <<"a">>, <<"b">> >> >>, cve |-> <<>>],
     [id |-> <<"fnd", "2">>, files |-> << << <<"a", "-", "b">> >> >>,
      cve |-> <<"CVE-1">>],
     [id |-> <<"fnd", "1">>, files |-> <<>>, cve |-> <<"CVE-1">>]}

\* the file node id the finding loop computes for an affected file
AffectsFileId(path) ==
    <<"file_", "ID", "_">> \o ReplaceAll(JoinPath(path), {"/", "."}, "_")

CveId(cve) == <<"cve_", "ID", "_">> \o cve

NodeLabel(type) ==
    CASE type = "file" -> "File"
      [] type = "directory" -> "Directory"
      [] OTHER -> "Package"

\* one call of a neo4j_service.write_* helper; grp > 0 numbers the finding
\* whose try block the call is in
WriteOp(op, label, id, src, dst, grp) ==
    [op |-> op, label |-> label, id |-> id, src |-> src, dst |-> dst,
     grp |-> grp]

\* the writes of finding k
FindingWrites(fd, k) ==
    <<WriteOp("node", "Finding", fd.id, <<>>, <<>>, k)>>
    \o [i \in 1..Len(fd.files) |->
          WriteOp("affects", "AFFECTS", <<>>, fd.id, AffectsFileId(fd.files[i]), k)]
    \o (IF fd.cve = <<>> THEN <<>>
        ELSE <<WriteOp("node", "CVE", CveId(fd.cve), <<>>, <<>>, k),
               WriteOp("has_cve", "HAS_CVE", <<>>, fd.id, CveId(fd.cve), k)>>)

RECURSIVE AllFindingWrites(_, _)
AllFindingWrites(findings, k) ==
    IF findings = <<>> THEN <<>>
    ELSE FindingWrites(Head(findings), k)
         \o AllFindingWrites(Tail(findings), k + 1)

\* the write calls of one connected build, in the order of the code
GraphWrites(g, findings) ==
    [i \in 1..Len(g.nodes) |->
        WriteOp("node", NodeLabel(g.nodes[i].type), g.nodes[i].id, <<>>, <<>>, 0)]
    \o [i \in 1..Len(g.edges) |->
          WriteOp("edge", "CONTAINS", g.edges[i].id, g.edges[i].source,
                  g.edges[i].target, 0)]
    \o AllFindingWrites(findings, 1)

HasNode(db, id) == \E n \in db.nodes : n.id = id

HasLabelled(db, label, id) == [label |-> label, id |-> id] \in db.nodes

\* CREATE instead of MERGE: the relationship is added again
UpsertEdge_Create(edges, e) == Append(edges, e)

\* MERGE (a)-[r]->(b)
UpsertEdge(edges, e) ==
    IF \E i \in 1..Len(edges) : edges[i] = e THEN edges ELSE Append(edges, e)

\* the Cypher statement of one write helper applied to the database db; the
\* properties SET on a node are those of the last write of the node
ApplyWrite(db, w) ==
    LET e == [type |-> w.label, id |-> w.id, source |-> w.src, target |-> w.dst]
    IN CASE w.op = "node" ->
              [db EXCEPT !.nodes = @ \cup {[label |-> w.label, id |-> w.id]}]
         [] w.op = "edge" ->
              IF HasNode(db, w.src) /\ HasNode(db, w.dst)
              THEN [db EXCEPT !.edges = UpsertEdge(@, e)] ELSE db
         [] w.op = "affects" ->
              IF HasLabelled(db, "Finding", w.src) /\ HasNode(db, w.dst)
              THEN [db EXCEPT !.edges = UpsertEdge(@, e)] ELSE db
         [] OTHER ->
              IF HasLabelled(db, "Finding", w.src) /\ HasLabelled(db, "CVE", w.dst)
              THEN [db EXCEPT !.edges = UpsertEdge(@, e)] ELSE db

\* the writes ws[k..] applied in order; the writes whose index is in fail
\* raise: the except clause skips the write, and for a finding the rest of
\* that finding's try block (skip)
RECURSIVE ApplyWrites(_, _, _, _, _)
ApplyWrites(db, ws, k, fail, skip) ==
    IF k > Len(ws) THEN db
    ELSE IF ws[k].grp > 0 /\ ws[k].grp \in skip
         THEN ApplyWrites(db, ws, k + 1, fail, skip)
    ELSE IF k \in fail
         THEN ApplyWrites(db, ws, k + 1, fail,
                          IF ws[k].grp > 0 THEN skip \cup {ws[k].grp} ELSE skip)
    ELSE ApplyWrites(ApplyWrite(db, ws[k]), ws, k + 1, fail, skip)

\* the failing subsets explored: no write, every write, the first write, the
\* last write, every second write
FailSets(n) ==
    {{}, 1..n, {k \in 1..n : k = 1}, {k \in 1..n : k = n},
     {k \in 1..n : k % 2 = 0}}

\* the write calls of a build with the inputs of this run
BuildWrites ==
    GraphWrites(BuildGraph(args.files, args.dependencies), args.findings)

\* one call of _build_neo4j_graph; is_connected() returns connected, the
\* writes in fail raise
B_Build(connected, fail) ==
    /\ kind = "persist" /\ Len(ret) < MaxBuilds /\ replies = <<>>
    /\ LET g == BuildGraph(args.files, args.dependencies)
           ws == BuildWrites
           raises == connected /\ fail # {} /\ GraphWriteOnError = "propagate"
           db == IF ~connected THEN neo
                 ELSE IF raises
                 THEN ApplyWrites(neo, SubSeq(ws, 1, (CHOOSE k \in fail :
                                     \A j \in fail : k <= j) - 1), 1, {}, {})
                 ELSE ApplyWrites(neo, ws, 1, fail, {})
       IN /\ (~connected) => (fail = {})
          /\ neo' = db
          /\ ret' = Append(ret, [graph |-> IF raises THEN EmptyNeo ELSE g,
                                 raised |-> raises,
                                 connected |-> connected,
                                 failed |-> fail,
                                 stored |-> db])
    /\ UNCHANGED <<args, auditRows, wsVars>>
    /\ UNCHANGED <<engineVars, rows, tasks, replies>>

\* GET /analysis/{id}/graph for the analysis completed after its build:
\* the ids of the nodes read from Neo4j when is_connected() returns true,
\* of the graph_nodes of the Analysis record otherwise
B_GetGraph(connected) ==
    /\ kind = "persist" /\ Len(ret) = 1 /\ replies = <<>>
    /\ replies' = <<[connected |-> connected,
                     nodes |-> IF connected
                               THEN {n.id : n \in neo.nodes}
                               ELSE {ret[1].graph.nodes[k].id :
                                       k \in 1..Len(ret[1].graph.nodes)}]>>
    /\ UNCHANGED <<args, ret, neo, auditRows, wsVars>>
    /\ UNCHANGED <<engineVars, rows, tasks>>

InitPersist ==
    /\ InitFn("persist")
    /\ args \in [files : DistinctSeqs(PersistPaths, MaxGraphFiles),
                 dependencies : SeqsUpTo({<<"x">>}, MaxGraphDeps),
                 findings : SeqsUpTo(PersistFindings, MaxGraphFindings)]
    /\ ret = <<>>

NextPersist ==
    \/ \E connected \in BOOLEAN, fail \in FailSets(Len(BuildWrites)) :
          B_Build(connected, fail)
    \/ \E connected \in BOOLEAN : B_GetGraph(connected)

PersistSpec == InitPersist /\ [][NextPersist]_vars

\* ------------------------------------------------------- ConnectionManager
\* the analysis id the connections and the events of this run belong to
WsId == "ID"

PublishMode_Spawn == "spawn"

\* the engines await each broadcast before they publish the next event
PublishMode == "await"

\* self.active.get(analysis_id, [])
Conns(act, id) == IF id \in DOMAIN act THEN act[id] ELSE <<>>

Members(act, id) == Range(Conns(act, id))

\* the entry of an emptied list stays in the map
Disconnect_KeepEntry(act, id, ws) ==
    IF id \in DOMAIN act
    THEN [act EXCEPT ![id] = SelectSeq(@, LAMBDA w : w # ws)]
    ELSE act

\* ConnectionManager.disconnect
Disconnect(act, id, ws) ==
    LET conns == SelectSeq(Conns(act, id), LAMBDA w : w # ws)
    IN IF id \notin DOMAIN act THEN act
       ELSE IF conns = <<>> THEN [i \in DOMAIN act \ {id} |-> act[i]]
       ELSE [act EXCEPT ![id] = conns]

\* for ws in dead: self.disconnect(analysis_id, ws)
RECURSIVE DisconnectAll(_, _, _)
DisconnectAll(act, id, deadList) ==
    IF deadList = <<>> THEN act
    ELSE DisconnectAll(Disconnect(act, id, Head(deadList)), id, Tail(deadList))

\* the connection map becomes act: a running broadcast whose list was
\* deleted from the map goes on iterating the deleted (empty) list; stayed
\* keeps the connections subscribed since the broadcast started
Rebind(b, act) ==
    IF b.done THEN b
    ELSE [b EXCEPT !.live = @ /\ WsId \in DOMAIN act,
                   !.stayed = @ \cap Members(act, WsId)]

\* a WebSocket request arrives: analysis_ws awaits websocket.accept()
W_Connect ==
    /\ kind = "ws" /\ Len(socks) < MaxSockets
    /\ socks' = Append(socks, [st |-> "accepting", inbox |-> <<>>])
    /\ UNCHANGED <<active, bc>>
    /\ UNCHANGED <<args, ret, auditRows, neo, engineVars, rows, tasks, replies>>

\* accept() returns and connect appends the socket, or accept() raises
W_Accept(ws, ok) ==
    /\ kind = "ws" /\ ws \in 1..Len(socks) /\ socks[ws].st = "accepting"
    /\ IF ok
       THEN /\ socks' = [socks EXCEPT ![ws].st = "open"]
            /\ active' = [i \in DOMAIN active \cup {WsId} |->
                             Append(Conns(active, i), ws)]
       ELSE /\ socks' = [socks EXCEPT ![ws].st = "closed"]
            /\ UNCHANGED active
    /\ UNCHANGED bc
    /\ UNCHANGED <<args, ret, auditRows, neo, engineVars, rows, tasks, replies>>

\* analysis_ws: receive_text or send_json raises, the handler disconnects
W_Leave(ws) ==
    /\ kind = "ws" /\ ws \in 1..Len(socks) /\ socks[ws].st = "open"
    /\ socks' = [socks EXCEPT ![ws].st = "closed"]
    /\ active' = Disconnect(active, WsId, ws)
    /\ bc' = [b \in 1..Len(bc) |-> Rebind(bc[b], active')]
    /\ UNCHANGED <<args, ret, auditRows, neo, engineVars, rows, tasks, replies>>

\* broadcast(analysis_id, message) is called: without a connection it
\* returns at once, otherwise it runs up to the first awaited send_json
W_Publish ==
    /\ kind = "ws" /\ Len(bc) < MaxEvents
    /\ (PublishMode = "await") => (\A b \in 1..Len(bc) : bc[b].done)
    /\ LET conns == Conns(active, WsId)
       IN bc' = Append(bc,
                  [it |-> IF conns = <<>> THEN 0 ELSE 1,
                   cur |-> IF conns = <<>> THEN 0 ELSE conns[1],
                   tried |-> IF conns = <<>> THEN <<>> ELSE <<conns[1]>>,
                   live |-> conns # <<>>,
                   stayed |-> Range(conns),
                   dead |-> <<>>,
                   raised |-> FALSE,
                   done |-> conns = <<>>])
    /\ UNCHANGED <<active, socks>>
    /\ UNCHANGED <<args, ret, auditRows, neo, engineVars, rows, tasks, replies>>

\* the awaited send_json of broadcast b returns (ok) or raises; the loop
\* goes on with the next element of the list it iterates, or ends and
\* disconnects the dead connections
W_SendReturns(b, ok) ==
    /\ kind = "ws" /\ b \in 1..Len(bc) /\ ~bc[b].done
    /\ LET r == bc[b]
           dead2 == IF ok THEN r.dead ELSE Append(r.dead, r.cur)
           conns == IF r.live THEN Conns(active, WsId) ELSE <<>>
       IN /\ socks' = IF ok THEN [socks EXCEPT ![r.cur].inbox = Append(@, b)]
                      ELSE socks
          /\ IF ~ok /\ BroadcastOnSendError = "propagate"
             THEN /\ bc' = [bc EXCEPT ![b].raised = TRUE, ![b].done = TRUE]
                  /\ UNCHANGED active
             ELSE IF r.it < Len(conns)
             THEN /\ bc' = [bc EXCEPT ![b].it = @ + 1,
                                      ![b].cur = conns[r.it + 1],
                                      ![b].tried = Append(@, conns[r.it + 1]),
                                      ![b].dead = dead2]
                  /\ UNCHANGED active
             ELSE /\ active' = DisconnectAll(active, WsId, dead2)
                  /\ bc' = [k \in 1..Len(bc) |->
                              IF k = b
                              THEN [r EXCEPT !.dead = dead2, !.done = TRUE]
                              ELSE Rebind(bc[k], active')]
    /\ UNCHANGED <<args, ret, auditRows, neo, engineVars, rows, tasks, replies>>

InitWs ==
    /\ InitFn("ws")
    /\ args = NoRet /\ ret = NoRet

NextWs ==
    \/ W_Connect
    \/ \E ws \in 1..MaxSockets, ok \in BOOLEAN : W_Accept(ws, ok)
    \/ \E ws \in 1..MaxSockets : W_Leave(ws)
    \/ W_Publish
    \/ \E b \in 1..MaxEvents, ok \in BOOLEAN : W_SendReturns(b, ok)

WsSpec == InitWs /\ [][NextWs]_vars

\* ------------------------------------------------- _safe_json / _truncate
\* JSON values: a string is its length, a dict its keys and values
JStr(n) == [t |-> "str", len |-> n, items |-> <<>>, keys |-> <<>>]

JNum == [t |-> "num", len |-> 0, items |-> <<>>, keys |-> <<>>]

JNone == [t |-> "none", len |-> 0, items |-> <<>>, keys |-> <<>>]

JList(items) == [t |-> "list", len |-> 0, items |-> items, keys |-> <<>>]

JDict(keys, vals) == [t |-> "dict", len |-> 0, items |-> vals, keys |-> keys]

\* the elements are cut to the limit but not truncated themselves
RECURSIVE Truncate_Shallow(_)
Truncate_Shallow(obj) ==
    CASE obj.t = "str" -> IF obj.len > StrLimit THEN JStr(StrLimit) ELSE obj
      [] obj.t = "dict" ->
           JDict(obj.keys, [k \in 1..Len(obj.items) |-> Truncate_Shallow(obj.items[k])])
      [] obj.t = "list" -> JList(SubSeq(obj.items, 1, Min(Len(obj.items), ListLimit)))
      [] OTHER -> obj

\* _truncate(obj)
RECURSIVE Truncate(_)
Truncate(obj) ==
    CASE obj.t = "str" -> IF obj.len > StrLimit THEN JStr(StrLimit) ELSE obj
      [] obj.t = "dict" ->
           JDict(obj.keys, [k \in 1..Len(obj.items) |-> Truncate(obj.items[k])])
      [] obj.t = "list" ->
           JList([k \in 1..Min(Len(obj.items), ListLimit) |-> Truncate(obj.items[k])])
      [] OTHER -> obj

\* len(str(obj)) of a payload that is neither dict, list nor None
StrLen(obj) == IF obj.t = "str" THEN obj.len ELSE 1

\* _safe_json(obj)
SafeJson(obj) ==
    IF obj.t = "none" THEN JNone
    ELSE IF obj.t \in {"dict", "list"} THEN Truncate(obj)
    ELSE JDict(<<"_raw">>, <<JStr(Min(StrLen(obj), StrLimit))>>)

\* payload values: scalars at and beyond the string limit
JLeaves == {JStr(StrLimit), JStr(StrLimit + 1), JNum}

\* lists and dicts of values of S: short ones, and lists at and beyond the
\* list limit
JContainers(S) ==
    {JList(q) : q \in SeqsUpTo(S, MaxPayloadWidth)}
    \cup {JDict([k \in 1..Len(q) |-> <<"k", k>>], q) : q \in SeqsUpTo(S, MaxPayloadWidth)}
    \cup {JList([k \in 1..n |-> v]) : n \in {ListLimit, ListLimit + 1}, v \in S}

Payloads ==
    {JNone} \cup JLeaves \cup JContainers(JLeaves)
    \cup JContainers(JLeaves \cup JContainers(JLeaves))

\* log_tool_call stores _safe_json(request_payload)
F_SafeJson ==
    /\ kind = "truncate" /\ ret = NoRet
    /\ ret' = SafeJson(args)
    /\ UNCHANGED args
    /\ FnFrame

InitTrunc ==
    /\ InitFn("truncate")
    /\ args \in Payloads
    /\ ret = NoRet

NextTrunc == F_SafeJson

TruncSpec == InitTrunc /\ [][NextTrunc]_vars

\* ================================================================== claims
EventTypes(evs) == {evs[i][1] : i \in 1..Len(evs)}

ErrorEvents == CountIn(published, LAMBDA e : e[1] = "error")

\* the run_pipeline coroutine has returned or raised
PipelineEnded == kind = "pipeline" /\ pc \in {"done", "crashed"}

\* C1: on every successful run of run_pipeline the persisted status takes the
\* values QUEUED, CLONING, MAPPING, ANALYZING, COMPLETING, COMPLETED in exactly
\* this order, none skipped, none revisited.
C1_StatusOrder ==
    (kind = "pipeline" /\ pc = "done" /\ status = "completed")
        => hist = <<"queued", "cloning", "mapping", "analyzing",
                    "completing", "completed">>

\* C2: COMPLETED and FAILED are absorbing: once the persisted status of a run
\* (run_pipeline or OrchestratorAgent.run) is COMPLETED or FAILED, no later
\* step of the run writes a different status.
C2_TerminalAbsorbing == [][(status \in Terminal) => (status' = status)]_vars

\* C2 witness: an orchestrator run with a subscriber has persisted COMPLETED,
\* broadcast it, and run on_complete after the terminal write.
C2_Witness ==
    /\ kind = "orchestrator" /\ pc = "o_done" /\ Idle
    /\ status = "completed" /\ subs # <<>>
    /\ Len(SelectSeq(published, LAMBDA e : e = EvStatus("orchestrator", "completed"))) = 2

\* C3: if git clone exits non-zero, the run's status becomes FAILED, no later
\* stage executes (status never MAPPING or ANALYZING, no capability called, no
\* finding or graph event published) and exactly one error event is published.
C3_CloneFailure ==
    (PipelineEnded /\ env.clone = "fail")
        => /\ status = "failed"
           /\ Range(hist) \cap {"mapping", "analyzing"} = {}
           /\ caps = {}
           /\ EventTypes(published) \cap {"finding", "graph_node", "graph_edge"} = {}
           /\ ErrorEvents = 1

\* C4: provided cloning, metadata ingestion and the writes to the Analysis
\* record succeed, whatever the outcomes of the capability calls the run ends
\* with status COMPLETED and never FAILED.
C4_FaultIsolation ==
    (kind = "pipeline" /\ env.clone = "ok" /\ ~env.ingestFailed /\ ~env.storeFault)
        => /\ status # "failed"
           /\ pc \notin {"except", "crashed"}
           /\ (pc = "done" => status = "completed")

\* C5: whenever an exception escapes a stage of run_pipeline, including a
\* failure of the Analysis-record store, the status is set to FAILED, the
\* error message is persisted truncated to 2000 characters and an error event
\* is published.
C5_EscapeHandled ==
    (PipelineEnded /\ env.excSeen)
        => /\ status = "failed"
           /\ errLen = Min(excLen, ErrMsgMax)
           /\ ErrorEvents >= 1

\* C6: every started run eventually reaches status COMPLETED or FAILED; no
\* external call that hangs, fails or times out leaves it non-terminal.
\* (A run whose coroutine ended with an exception of the record store is the
\* case of C5 and is not counted here.)
C6_Terminates == <>(status \in Terminal \/ pc \in {"crashed", "o_raised"})

\* C7: the engine never waits on an observer: while the run has not reached
\* its terminal status and the delivery of an event to a subscriber is in
\* flight, the engine still has a step of its own to take.
C7_NeverWaitsOnObserver ==
    (bidx > 0 /\ status \notin Terminal)
        => ENABLED (PipelineStep \/ OrchestratorStep)

\* C8: for every analysis id at most one engine task is active, across any
\* sequence of start_analysis requests.
C8_OneRunPerId == \A id \in 1..MaxIds : Cardinality(ActiveRuns(id)) <= 1

\* C8 witness: generate_analysis_id returned an id twice; one request's task
\* is running on it and the other request was refused.
C8_Witness ==
    \E j \in 1..Len(tasks), k \in 1..Len(tasks) :
        /\ j # k /\ tasks[j].id = tasks[k].id
        /\ tasks[j].st = "running" /\ tasks[k].st = "rejected"

\* C9: if every provider of a capability is unavailable, or all of them fail,
\* the call returns an empty/no-result outcome and never raises to its call
\* site.
C9_NoProviderNoRaise ==
    (/\ call.primary \in {"unavailable", "failed"}
     /\ call.fallback \in {"unavailable", "failed", "none"})
        => /\ ~call.raised
           /\ call.result \notin {"A", "B"}

\* C10: when the primary provider A fails and the fallback provider B
\* succeeds, the result is B's and exactly two audit records are written:
\* one error (for A), then one success (for B).
C10_FallbackAudit ==
    (call.primary = "failed" /\ call.fallback = "ok")
        => /\ call.result = "B"
           /\ Len(call.records) = 2
           /\ call.records[1][2] = "error"
           /\ call.records[2][2] = "success"

\* C11: the providers of a capability are tried in their fixed order: a
\* provider that reports itself unavailable writes no audit record of its own
\* (it is never invoked), and the fallback provider is attempted only when the
\* primary was skipped as unavailable or its attempt failed, never after a
\* primary attempt that succeeded.
C11_ProviderOrder ==
    /\ (call.fallback \in {"ok", "failed"})
          => (call.primary \in {"unavailable", "failed"})
    /\ (call.cap = "deep_research" /\ ~avail.yutori)
          => (\A i \in 1..Len(call.records) : call.records[i][1] # "yutori")
    /\ (call.cap \in {"classification", "code_quality"} /\ ~avail.fastino)
          => (\A i \in 1..Len(call.records) : call.records[i][1] # "fastino")
    /\ (call.cap \in {"classification", "code_quality", "deep_research"}
        /\ ~avail.openai)
          => (\A i \in 1..Len(call.records) : call.records[i][1] # "openai")

\* a provider of the call c was attempted (not skipped, not absent)
Attempted(st) == st \in {"ok", "failed", "empty"}

\* C12: every attempt to invoke a capability provider, successful or failed,
\* is handed to the audit logger: a call whose primary was attempted has at
\* least one audit record, and one record more when its fallback was
\* attempted too; fix generation and the reasoning provider included.
C12_EveryAttemptAudited ==
    /\ Attempted(call.primary) => Len(call.records) >= 1
    /\ Attempted(call.fallback) => Len(call.records) >= 1
    /\ (Attempted(call.primary) /\ Attempted(call.fallback))
          => Len(call.records) >= 2

\* what call i of the run returns when every audit write succeeds
AuditFree(a) ==
    IF a.op = "clone" THEN CloneLog(a.o, TRUE).result
    ELSE StageChat(a.o, TRUE, TRUE).result

\* C13: a failure to persist an audit record is invisible to the caller:
\* every logged call of the run returned to its stage the result it has when
\* the audit writes succeed, and the run is FAILED only when the clone itself
\* failed, never because of a failed audit write.
C13_AuditFailureInvisible ==
    /\ \A i \in 1..Len(ret) : ret[i] = AuditFree(args[i])
    /\ (status = "failed")
          <=> (\E i \in 1..Len(args) : args[i].op = "clone" /\ args[i].o # 0)

\* a chat call succeeded and gave its result to the stage although the write
\* of its audit record failed, and the run went on to ANALYZING
C13_Witness ==
    /\ status = "analyzing"
    /\ \E i \in 1..Len(ret) :
          /\ args[i].op = "chat" /\ args[i].o = "ok" /\ ~args[i].w1
          /\ ret[i] = "B"
    /\ Len(auditRows) < Len(ret)

\* positions <<source, item>> of the items the claim keeps
KeptAt(sources) ==
    {p \in (1..Len(sources)) \X (1..MaxMergeItems + 1) :
        /\ sources[p[1]].list
        /\ p[2] <= Len(sources[p[1]].items)
        /\ Kept(sources[p[1]].items[p[2]])}

\* source order, then item order
Before(p, q) == p[1] < q[1] \/ (p[1] = q[1] /\ p[2] < q[2])

C15_FindingIdsUnique ==
    (kind = "findings" /\ ret # NoRet) =>
        \A i, j \in 1..Len(ret.all_f) :
            (i # j) => (ret.all_f[i].id # ret.all_f[j].id)

\* C16: every finding of a run has a severity in {critical, warning, info},
\* whatever severity string the provider answered with.
C16_SeverityDomain ==
    (kind = "findings" /\ ret # NoRet) =>
        \A i \in 1..Len(ret.all_f) : ret.all_f[i].severity \in Severities

\* findings reordered by the permutation p of its positions
Permuted(findings, p) == [k \in 1..Len(findings) |-> findings[p[k]]]

\* findings with positions k and k + 1 exchanged
Swapped(findings, k) ==
    [j \in 1..Len(findings) |->
        IF j = k THEN findings[k + 1]
        ELSE IF j = k + 1 THEN findings[k] ELSE findings[j]]

\* C17: the health score does not depend on the order of the findings: the
\* overall score, the letter grade and the breakdown computed for any
\* permutation of a list are those computed for the list (every permutation
\* of a list of up to MaxScoreLen findings, every exchange of neighbours in a
\* longer one).
C17_ScoreOrderFree ==
    (kind = "score" /\ ret # NoRet) =>
        /\ \A k \in 1..(Len(args.findings) - 1) :
              ComputeHealthScore(Swapped(args.findings, k)) = ret
        /\ (Len(args.findings) <= MaxScoreLen) =>
              \A p \in Permutations(1..Len(args.findings)) :
                  ComputeHealthScore(Permuted(args.findings, p)) = ret

\* a list in which three different kinds of findings are not grouped was
\* scored
C17_Witness ==
    /\ kind = "score" /\ ret # NoRet
    /\ Len(args.findings) = 4
    /\ args.findings[1].severity = "info"
    /\ args.findings[2].severity = "critical"
    /\ args.findings[3].severity = "info"
    /\ args.findings[4].severity = "warning"
    /\ ret.overall = 91

\* the thresholds of the letter grades, best first
GradeTable ==
    <<<<97, "A+">>, <<93, "A">>, <<90, "A-">>, <<87, "B+">>, <<83, "B">>,
      <<80, "B-">>, <<77, "C+">>, <<73, "C">>, <<70, "C-">>, <<60, "D">>>>

\* C18: the overall score is an integer in [0, 100], and the letter grade is
\* decided by the overall score alone: the grade of the first threshold of
\* 97 A+, 93 A, 90 A-, 87 B+, 83 B, 80 B-, 77 C+, 73 C, 70 C-, 60 D that the
\* score reaches, and F below 60.
C18_OverallAndGrade ==
    (kind = "score" /\ ret # NoRet) =>
        /\ ret.overall \in 0..100
        /\ \/ /\ ret.overall < 60
              /\ ret.letterGrade = "F"
           \/ \E k \in 1..Len(GradeTable) :
                 /\ ret.overall >= GradeTable[k][1]
                 /\ \A j \in 1..(k - 1) : ret.overall < GradeTable[j][1]
                 /\ ret.letterGrade = GradeTable[k][2]

\* seventeen critical findings: 100 - 102 is below 0 and is clamped to 0, F
C18_Witness ==
    /\ kind = "score" /\ ret # NoRet
    /\ Len(args.findings) = 17
    /\ \A k \in 1..17 : args.findings[k].severity = "critical"
    /\ ret.overall = 0 /\ ret.letterGrade = "F"

\* number of findings of severity sev, counted as a set of positions
NumberOf(findings, sev) ==
    Cardinality({k \in 1..Len(findings) : findings[k].severity = sev})

\* C19: overall = clamp(0, 100, round(100 - 2 * (3 c + w + 0.2 i))) for c
\* critical, w warning and i info findings (in tenths: the integer nearest to
\* (1000 - 60 c - 20 w - 4 i) / 10, which is never half-way); two critical and
\* three warning findings give 82 and B-, no finding gives 100 and A+.
C19_OverallFormula ==
    (kind = "score" /\ ret # NoRet) =>
        LET c == NumberOf(args.findings, "critical")
            w == NumberOf(args.findings, "warning")
            i == NumberOf(args.findings, "info")
            x == 1000 - 60 * c - 20 * w - 4 * i
        IN /\ \E n \in ((x \div 10) - 1)..((x \div 10) + 1) :
                 /\ 10 * n - 5 < x /\ x < 10 * n + 5
                 /\ ret.overall = (IF n < 0 THEN 0 ELSE IF n > 100 THEN 100 ELSE n)
           /\ (c = 2 /\ w = 3 /\ i = 0)
                 => (ret.overall = 82 /\ ret.letterGrade = "B-")
           /\ (args.findings = <<>>)
                 => (ret.overall = 100 /\ ret.letterGrade = "A+")

\* the scenario of two critical and three warning findings was scored
C19_Witness ==
    /\ kind = "score" /\ ret # NoRet
    /\ NumberOf(args.findings, "critical") = 2
    /\ NumberOf(args.findings, "warning") = 3
    /\ NumberOf(args.findings, "info") = 0
    /\ ret.overall = 82 /\ ret.letterGrade = "B-"

\* C20: in every graph _build_neo4j_graph returns, node ids are pairwise
\* distinct and edge ids are pairwise distinct, whatever the file paths and
\* the declared dependencies.
C20_GraphIdsUnique ==
    (kind = "graph" /\ ret # NoRet) =>
        /\ \A i, j \in 1..Len(ret.nodes) :
              (i # j) => (ret.nodes[i].id # ret.nodes[j].id)
        /\ \A i, j \in 1..Len(ret.edges) :
              (i # j) => (ret.edges[i].id # ret.edges[j].id)

\* the build at position i of this run was connected and none of its writes
\* failed
Applied(i) == ret[i].connected /\ ret[i].failed = {}

\* C21: two builds with the same files, dependencies and findings return
\* identical graphs, and a build repeated after a build whose upserts were
\* applied leaves the nodes and relationships stored in Neo4j unchanged
C21_BuildIdempotent ==
    (kind = "persist" /\ Len(ret) = MaxBuilds) =>
        /\ ret[1].graph = ret[2].graph
        /\ Applied(1) => (ret[2].stored = ret[1].stored)

\* two applied builds of a graph that has nodes, relationships and findings
C21_Witness ==
    /\ kind = "persist" /\ Len(ret) = MaxBuilds
    /\ Applied(1) /\ Applied(2)
    /\ Len(neo.edges) >= 2
    /\ \E n \in neo.nodes : n.label = "Finding"

\* C22: every build returns the full node and edge list built from the
\* files and dependencies and raises nothing, whether Neo4j is reachable,
\* unreachable or fails some of the writes
C22_ReturnIndependentOfBackend ==
    kind = "persist" =>
        \A i \in 1..Len(ret) :
            /\ ~ret[i].raised
            /\ ret[i].graph = BuildGraph(args.files, args.dependencies)

\* a build without connection and a connected build with a failed write that
\* return the same non-empty list
C22_Witness ==
    /\ kind = "persist" /\ Len(ret) = MaxBuilds
    /\ ~ret[1].connected
    /\ ret[2].connected /\ ret[2].failed # {}
    /\ ret[2].stored # ret[1].stored
    /\ Len(ret[2].graph.edges) >= 1

\* the relationship of the given type from source to target is stored
HasRel(db, type, source, target) ==
    \E k \in 1..Len(db.edges) :
        /\ db.edges[k].type = type
        /\ db.edges[k].source = source /\ db.edges[k].target = target

\* C29: after a build whose writes were all applied, the graph holds for
\* every finding a finding node and an affects edge to the node of each file
\* of the repository the finding references, and for a finding with a CVE
\* reference a CVE node and a has_cve edge
C29_FindingsInGraph ==
    kind = "persist" =>
        \A i \in 1..Len(ret) : Applied(i) =>
            \A k \in 1..Len(args.findings) :
                LET fd == args.findings[k]
                IN /\ HasLabelled(ret[i].stored, "Finding", fd.id)
                   /\ \A j \in 1..Len(fd.files) :
                        (\E f \in 1..Len(args.files) : args.files[f] = fd.files[j])
                        => HasRel(ret[i].stored, "AFFECTS", fd.id,
                                  FileId(fd.files[j]))
                   /\ (fd.cve # <<>>) =>
                        /\ HasLabelled(ret[i].stored, "CVE", CveId(fd.cve))
                        /\ HasRel(ret[i].stored, "HAS_CVE", fd.id, CveId(fd.cve))

NodeIds(g) == {g.nodes[k].id : k \in 1..Len(g.nodes)}

\* C30: the source and the target of every edge of the returned graph are
\* ids of nodes of the same returned node list
C30_EdgeEndpointsExist ==
    (kind = "graph" /\ ret # NoRet) =>
        \A k \in 1..Len(ret.edges) :
            /\ ret.edges[k].source \in NodeIds(ret)
            /\ ret.edges[k].target \in NodeIds(ret)

\* a returned graph with a directory below a directory and a file in it
C30_Witness ==
    /\ kind = "graph" /\ ret # NoRet
    /\ \E k, j \in 1..Len(ret.edges) :
        /\ ret.edges[k].target = ret.edges[j].source
        /\ ret.edges[k].source # DirId(RootDir)
        /\ ret.edges[j].target \in NodeIds(ret)

\* C23: a completed run has persisted its graph in exactly one backend:
\* in Neo4j, every write applied, when Neo4j was reachable, and in the
\* Analysis record only when it was not
C23_OneGraphBackend ==
    (kind = "pipeline" /\ status = "completed") =>
        \/ res.neo4j = "written" /\ res.record = "none"
        \/ res.neo4j = "json" /\ res.record = "graph"

\* an event a stage publishes about its work
StageWork(e) == e[1] \in {"tool_activity", "finding", "graph_node", "graph_edge"}

\* C28: in a completed run every event a stage publishes about its work has
\* a status event published before it (the stage starts) and a status event
\* published after it (the stage has completed)
C28_StatusBeforeAndAfter ==
    (kind = "pipeline" /\ status = "completed") =>
        \A j \in 1..Len(published) : StageWork(published[j]) =>
            /\ \E i \in 1..(j - 1) : published[i][1] = "status"
            /\ \E k \in (j + 1)..Len(published) : published[k][1] = "status"

\* the broadcasts of this run that have returned or raised
Finished == {b \in 1..Len(bc) : bc[b].done}

\* C24: a finished broadcast has sent the event to every connection that
\* was subscribed from its start to its end
C24_BroadcastReachesAll ==
    kind = "ws" =>
        \A b \in Finished : \A ws \in bc[b].stayed : ws \in Range(bc[b].tried)

\* C25: a finished broadcast in which a delivery raised has not raised
\* itself, has removed the failed connections from the subscriber list, has
\* tried no connection twice, and has delivered the event to every other
\* connection subscribed from its start to its end
C25_FailedDeliveryIsolated ==
    kind = "ws" =>
        \A b \in Finished : (bc[b].dead # <<>>) =>
            /\ ~bc[b].raised
            /\ Range(bc[b].dead) \cap Members(active, WsId) = {}
            /\ \A i, j \in 1..Len(bc[b].tried) :
                   (i # j) => (bc[b].tried[i] # bc[b].tried[j])
            /\ \A ws \in bc[b].stayed \ Range(bc[b].dead) :
                   b \in Range(socks[ws].inbox)

\* C26: the connection map has no analysis id with an empty list, and the
\* handler of a connection that is not subscribed leaves the map unchanged
\* when it disconnects
C26_NoEmptyEntry ==
    /\ [](kind = "ws" => \A id \in DOMAIN active : active[id] # <<>>)
    /\ [][\A ws \in 1..Len(socks) :
            (/\ kind = "ws"
             /\ socks[ws].st = "open" /\ socks'[ws].st = "closed"
             /\ ws \notin Members(active, WsId))
            => (active' = active)]_vars

\* the last subscriber has left by failed delivery, its handler has
\* disconnected afterwards, and the map is empty
C26_Witness ==
    /\ kind = "ws" /\ DOMAIN active = {}
    /\ \E b \in Finished : \E ws \in Range(bc[b].dead) : socks[ws].st = "closed"

\* C27: every connection receives the events of the analysis in the order
\* they were published
C27_PublishOrder ==
    kind = "ws" =>
        \A ws \in 1..Len(socks) :
            \A i, j \in 1..Len(socks[ws].inbox) :
                (i < j) => (socks[ws].inbox[i] < socks[ws].inbox[j])

\* two connections have both received two events
C27_Witness ==
    /\ kind = "ws" /\ Len(socks) >= 2
    /\ \A ws \in 1..2 : Len(socks[ws].inbox) >= 2

\* the ids reachable from the ids in seen by following edges of g
RECURSIVE ReachableIds(_, _)
ReachableIds(g, seen) ==
    LET more == {g.edges[k].target : k \in {j \in 1..Len(g.edges) :
                                              g.edges[j].source \in seen}}
    IN IF more \subseteq seen THEN seen ELSE ReachableIds(g, seen \cup more)

\* the edges of g that point at the node id
Incoming(g, id) == {k \in 1..Len(g.edges) : g.edges[k].target = id}

\* C31: the returned graph has exactly one root directory node, every other
\* directory node and every file node has exactly one incoming contains
\* edge, and each of them is reachable from the root along contains edges
C31_DirectoryTree ==
    (kind = "graph" /\ ret # NoRet) =>
        /\ Cardinality({k \in 1..Len(ret.nodes) :
                           ret.nodes[k].id = DirId(RootDir)}) = 1
        /\ \A k \in 2..Len(ret.nodes) :
              (ret.nodes[k].type \in {"directory", "file"}) =>
                 /\ Cardinality(Incoming(ret, ret.nodes[k].id)) = 1
                 /\ ret.nodes[k].id \in ReachableIds(ret, {DirId(RootDir)})

\* C39: in a build with Neo4j reachable, the target id of the affects write
\* of every finding for every referenced path that has a file node is the
\* id of that file node
C39_AffectsTargetIsFileNode ==
    kind = "persist" =>
        \A i \in 1..Len(ret) : ret[i].connected =>
            \A k \in 1..Len(args.findings) :
                \A j \in 1..Len(args.findings[k].files) :
                    LET path == args.findings[k].files[j]
                    IN (\E f \in 1..Len(args.files) : args.files[f] = path)
                       => /\ AffectsFileId(path) = FileId(path)
                          /\ \E n \in 1..Len(ret[i].graph.nodes) :
                                /\ ret[i].graph.nodes[n].type = "file"
                                /\ ret[i].graph.nodes[n].id = AffectsFileId(path)

\* the number of events of type t published so far
Published(t) == CountIn(published, LAMBDA e : e[1] = t)

\* C34: when the complete event is published the record has status
\* COMPLETED with results and graph, and when the error event is published
\* the record has status FAILED
C34_PersistBeforeTerminalEvent ==
    kind = "pipeline" =>
        /\ (Published("complete") > 0) =>
              (status = "completed" /\ res.record = "graph")
        /\ (Published("error") > 0) => (status = "failed")

\* a subscriber has been sent the complete event of a completed run
C34_Witness ==
    /\ kind = "pipeline" /\ status = "completed" /\ Idle
    /\ Published("complete") > 0 /\ Published("finding") > 0
    /\ subs # <<>>

\* C35: a run whose status is terminal has published exactly one terminal
\* event, complete for COMPLETED and error for FAILED, and it is the last
\* event published
C35_OneTerminalEvent ==
    (kind = "pipeline" /\ status \in Terminal) =>
        /\ Published("complete") = (IF status = "completed" THEN 1 ELSE 0)
        /\ Published("error") = (IF status = "failed" THEN 1 ELSE 0)
        /\ published # <<>>
        /\ published[Len(published)][1] \in {"complete", "error"}

\* a failed run after its error event was sent to a subscriber
C35_Witness ==
    /\ kind = "pipeline" /\ status = "failed" /\ Idle /\ pc = "done"
    /\ Published("error") = 1 /\ Published("status") > 1
    /\ subs # <<>>

\* the stages whose results run_pipeline hands to _merge_findings
FindingSources == {"cve", "bp", "quality", "deep", "yutori"}

\* the findings of the persisted set that come from the stage src
PersistedFrom(src) ==
    CASE src = "cve" -> res.cveF
      [] src = "bp" -> res.bp
      [] src = "quality" -> res.quality
      [] src = "deep" -> res.deep
      [] OTHER -> MergeCount(res) - res.cveF - res.bp - res.quality - res.deep

\* C36: on a completed run the finding events published per stage are the
\* findings of that stage in the persisted set, all of them published
\* before the complete event
C36_StreamedEqualsPersisted ==
    (kind = "pipeline" /\ status = "completed") =>
        /\ \A src \in FindingSources :
              CountIn(published, LAMBDA e : e = EvFinding(src)) = PersistedFrom(src)
        /\ \A i \in 1..Len(published) :
              (published[i][1] = "finding") =>
                 \E j \in (i + 1)..Len(published) : published[j][1] = "complete"

\* C37: on a completed run the merged finding set holds, besides the
\* findings of the other stages, the vulnerabilities of the deep-research
\* result, whether it came from Yutori or from the OpenAI fallback
C37_DeepResearchMerged ==
    (kind = "pipeline" /\ status = "completed") =>
        MergeCount(res) =
            res.cveF + res.bp + res.quality + res.deep + res.yutoriN + res.vulns

\* C38: for the completed analysis get_graph returns the ids of the nodes
\* its build returned, whatever the reachability of Neo4j was at the build
\* and is at the read, and whichever writes of the build were skipped
C38_GetGraphReturnsBuilt ==
    (kind = "persist" /\ replies # <<>>) =>
        replies[1].nodes = NodeIds(ret[1].graph)

\* every string of v is within the string limit and every list of v within
\* the list limit, at any depth
RECURSIVE WithinLimits(_)
WithinLimits(v) ==
    /\ (v.t = "str") => (v.len <= StrLimit)
    /\ (v.t = "list") => (Len(v.items) <= ListLimit)
    /\ \A k \in 1..Len(v.items) : WithinLimits(v.items[k])

\* C32: the value _safe_json returns has no string longer than 4000 and no
\* list longer than 200 at any depth; a dict or list already within the
\* limits is returned unchanged, and truncating the result again changes
\* nothing
C32_TruncationBounds ==
    (kind = "truncate" /\ ret # NoRet) =>
        /\ WithinLimits(ret)
        /\ (args.t \in {"dict", "list"} /\ WithinLimits(args)) => (ret = args)
        /\ SafeJson(ret) = ret

\* a list beyond the list limit whose elements hold a string beyond the
\* string limit has been truncated
C32_Witness ==
    /\ kind = "truncate" /\ ret # NoRet
    /\ args.t = "list" /\ Len(args.items) > ListLimit
    /\ args.items[1].t = "list" /\ args.items[1].items # <<>>
    /\ args.items[1].items[1] = JStr(StrLimit + 1)
    /\ Len(ret.items) = ListLimit
    /\ ret.items[1].items[1] = JStr(StrLimit)

\* call i of the run returned a result to the stage that made it
Returned(i) == ret[i] \in {"B", "cloned"}

\* C33: when no audit write fails, every client call of the run has
\* written exactly one audit record, with status success if the call
\* returned a result and error if it raised
C33_OneRecordPerCall ==
    (kind = "audit" /\ \A i \in 1..Len(args) : args[i].w1 /\ args[i].w2) =>
        /\ Len(auditRows) = Len(args)
        /\ \A i \in 1..Len(args) :
              (i <= Len(auditRows)) =>
                 auditRows[i][2] = (IF Returned(i) THEN "success" ELSE "error")

\* C40: OrchestratorAgent.run publishes the on_start event first; on_complete
\* has run only when execute returned (COMPLETED committed, no failure
\* event); when run has re-raised after on_error, on_error ran once and the
\* status of the analysis is FAILED
C40_AgentLifecycle ==
    kind = "orchestrator" =>
        /\ (published # <<>>) =>
              (published[1] = EvStatus("orchestrator", "starting"))
        /\ (pc = "o_done") =>
              /\ status = "completed"
              /\ CountIn(published,
                         LAMBDA e : e = EvStatus("orchestrator", "failed")) = 0
        /\ (pc = "o_raised") =>
              /\ objStatus = "failed" /\ status = "failed"
              /\ CountIn(published,
                         LAMBDA e : e = EvStatus("orchestrator", "failed")) = 1

====
